---------------------------- MODULE Spec2Model ----------------------------
(***************************************************************************)
(* Model of the listing / export pipeline of beta-intelligence.            *)
(*                                                                         *)
(*   - ProfessionHandler.GetProfessions (Go, fiber handler): query         *)
(*     parsing, sort allow-list, pagination metadata.                      *)
(*   - handleExportAll (events table): direct fetch, paginated fallback,   *)
(*     partial-export confirmation, batched processing, cleanup.           *)
(*   - GET of the lead and anonymous proxy routes (Next.js route           *)
(*     handlers): upstream fetch, transformation, error envelope.          *)
(*   - fetchEvents and parseSearchParams (events page): the listing         *)
(*     request built from the URL, the filters read from the URL.          *)
(*                                                                         *)
(*   - DateFilter and the date filters of the surveys table: the range   *)
(*     emitted through onChange, the URL written by applyCurrentFilter.    *)
(*                                                                         *)
(*   - Pagination (the page count and the four buttons) and the events   *)
(*     page's currentPage state, kept in step with the page parameter.     *)
(*                                                                         *)
(* Each component has its own specification; the variables of the other    *)
(* components stay at their initial values in it.                          *)
(***************************************************************************)
EXTENDS Integers, Sequences, FiniteSets, TLC

VARIABLES
    \* ---- ProfessionHandler.GetProfessions ----
    query,          \* raw query parameters of the last request
    ucArgs,         \* arguments handed to professionUseCase.GetProfessions
    resp,           \* what the handler returned
    \* ---- handleExportAll ----
    pc,             \* position of the export job (its current await)
    totalRegistros, \* meta.total captured at the start of the job
    exportAllLoading,
    exportProgress,
    menuOpen,       \* the export dropdown shows its items
    runningJobs,    \* handleExportAll calls between their confirm and finally
    allEvents,      \* accumulated rows, as a sequence of chunks
    usedPagination,
    branch,         \* which copy of the page loop runs: "try" or "catch"
    page,           \* loop variable of the page loop
    requests,       \* requests issued by the job, in order
    inFlight,       \* number of requests awaiting an answer
    batchIdx,       \* batches processed so far
    csvRows,        \* data rows pushed to csvRows so far
    progressLog,    \* every value written to exportProgress by the job
    partialAsked,   \* the partial-export dialog was shown
    partialConfirmed,
    alerts,         \* messages shown to the user by the job
    outcome,        \* how the last job ended
    outputRows,     \* number of records in the materialized file
    direct,         \* how the direct request was answered
    failedPages,    \* pages whose request failed, in order
    \* ---- lead / anonymous proxy routes ----
    proxyReq,       \* route and raw query parameters of the request
    upstream,       \* how the upstream fetch was answered
    proxyResp,      \* what the route handler returned
    \* ---- fetchEvents / parseSearchParams ----
    evUrl,          \* the search parameters of the page URL
    queryKey,       \* page, limit and sortConfig of the query key
    clearingFlag,   \* sessionStorage 'filter_clearing_in_progress' = 'true'
    apiRequest,     \* the request fetchEvents issued
    fetchResult,    \* how the fetchEvents promise settled
    parsed,         \* what parseSearchParams returned
    exportSent,     \* parameters of the export requests for the same URL
    \* ---- DateFilter inside the surveys table ----
    today,          \* the current day
    surveyUrl,      \* the search parameters of the surveys page
    filtersStale,   \* the URL changed and the filters effect has not run yet
    activeFilters,
    currentEditingFilter,
    tempDateRange,
    selectedDates,  \* DateFilter state, meaningful while the modal is open
    fromTime,
    toTime,
    showCustomTime,
    emitted,        \* the last argument DateFilter passed to onChange
    opened,         \* the modal has been opened
    applied,        \* category and range of the last applyCurrentFilter
    \* ---- Pagination ----
    pagProps,       \* pageIndex, totalCount, perPage
    pagView,        \* what the last render computed
    pageAsked,      \* the argument of the last onPageChange call
    \* ---- the events page ----
    landingPage,    \* the page parameter the visitor arrived with
    urlPage,        \* searchParams.get('page')
    urlLimit,       \* searchParams.get('limit')
    pendingNav,     \* a router.push that has not committed yet
    currentPage,
    pageLimit,      \* the limit state of the events page
    isManualLoading,
    isRefetchingRef,
    blockRefetchRef,
    refetchTimers,  \* 100 ms timers of page changes, armed and not fired
    urlFiltered,    \* the URL carries advanced_filters
    isMounted,
    loadingTimeoutRef,
    orphanTimers,   \* loading timers still pending that no ref names
    cleanups,       \* which searchParams effects left a cleanup behind
    hasSearchParamsChanged,
    restoreTimers,  \* 100 ms timers of filter restores, armed and not fired
    safeTimers,     \* 50 ms timers of safeRefetch, armed and not fired
    safeOrigin,     \* what called the safeRefetch that armed the last one
    refetching,     \* refetch() calls that have not settled, by caller
    clearPc,        \* position of the filters-cleared handler
    sessionKeys,    \* the keys of sessionStorage, in key(i) order
    removalTimers,  \* 5 s timers of the filters-cleared handler
    userActions,    \* clicks, events and navigations from outside so far
    listingKey,     \* the query key of the last listing request
    eventsData      \* meta of the last listing answer

profVars == <<query, ucArgs, resp>>

exportVars == <<pc, totalRegistros, exportAllLoading, exportProgress,
                allEvents, usedPagination, branch, page, requests, inFlight,
                batchIdx, csvRows, progressLog, partialAsked, partialConfirmed,
                alerts, outcome, outputRows, direct, failedPages, menuOpen,
                runningJobs>>

proxyVars == <<proxyReq, upstream, proxyResp>>

fetchVars == <<evUrl, queryKey, clearingFlag, apiRequest, fetchResult, parsed,
               exportSent>>

dateVars == <<today, surveyUrl, filtersStale, activeFilters,
              currentEditingFilter, tempDateRange, selectedDates, fromTime,
              toTime, showCustomTime, emitted, opened, applied>>

paginationVars == <<pagProps, pagView, pageAsked>>

urlVars == <<landingPage, urlPage, urlLimit, urlFiltered, pendingNav>>

queryVars == <<currentPage, pageLimit, listingKey, eventsData>>

loadVars == <<isManualLoading, loadingTimeoutRef, orphanTimers>>

refetchVars == <<isRefetchingRef, safeTimers, safeOrigin, refetching>>

pageVars == <<urlVars, queryVars, loadVars, refetchVars, isMounted, cleanups,
              blockRefetchRef, hasSearchParamsChanged, refetchTimers,
              restoreTimers, clearPc, sessionKeys, removalTimers, userActions>>

vars == <<profVars, exportVars, proxyVars, fetchVars, dateVars,
          paginationVars, pageVars>>

\* The variables of the other components, for each component
nonProfVars == <<exportVars, proxyVars, fetchVars, dateVars,
               paginationVars, pageVars>>
nonExportVars == <<profVars, proxyVars, fetchVars, dateVars,
               paginationVars, pageVars>>
nonProxyVars == <<profVars, exportVars, fetchVars, dateVars,
               paginationVars, pageVars>>
nonFetchVars == <<profVars, exportVars, proxyVars, dateVars,
               paginationVars, pageVars>>
nonPaginationVars == <<profVars, exportVars, proxyVars, fetchVars, dateVars,
                       pageVars>>
nonPageVars == <<profVars, exportVars, proxyVars, fetchVars, dateVars,
                 paginationVars>>
nonDateVars == <<profVars, exportVars, proxyVars, fetchVars,
               paginationVars, pageVars>>

----------------------------------------------------------------------------
(* Bounds *)

MaxProfTotal == 25      \* largest total the use case reports
MaxPages == 3           \* export totals go up to MaxPages * pageSize
MaxCount == 12           \* largest totalCount handed to Pagination
MaxPerPage == 4          \* largest perPage handed to Pagination
MaxPageIndex == 4        \* largest pageIndex handed to Pagination
MaxListingTotal == 25    \* largest total the listing endpoint reports
MaxUserActions == 2      \* clicks, events and navigations from outside
MaxStoredKeys == 4       \* keys in sessionStorage when the page opens
MaxBack == 1            \* the calendar reaches MaxBack days before today
TimeStride == 31        \* every TimeStride-th time option is picked

----------------------------------------------------------------------------
(* Numeric helpers *)

Max(a, b) == IF a >= b THEN a ELSE b
Min(a, b) == IF a <= b THEN a ELSE b

\* ceil(a / b) for a >= 0, b >= 1
CeilDiv(a, b) == (a + b - 1) \div b

\* Go's integer division truncates toward zero; b # 0
GoDiv(a, b) ==
    LET q == (IF a < 0 THEN -a ELSE a) \div (IF b < 0 THEN -b ELSE b)
    IN  IF (a < 0) = (b < 0) THEN q ELSE -q

----------------------------------------------------------------------------
(* ProfessionHandler.GetProfessions *)

Digits == {"0", "1", "2", "3", "4", "5", "6", "7", "8", "9"}

DigitVal(c) ==
    CASE c = "0" -> 0 [] c = "1" -> 1 [] c = "2" -> 2 [] c = "3" -> 3
      [] c = "4" -> 4 [] c = "5" -> 5 [] c = "6" -> 6 [] c = "7" -> 7
      [] c = "8" -> 8 [] c = "9" -> 9

RECURSIVE DigitsVal(_)
DigitsVal(s) ==
    IF s = <<>> THEN 0
    ELSE 10 * DigitsVal(SubSeq(s, 1, Len(s) - 1)) + DigitVal(s[Len(s)])

\* strconv.Atoi with the error discarded: the value, or 0 on a syntax error.
\* A string is a sequence of characters.
Atoi(s) ==
    LET signed == Len(s) > 0 /\ s[1] \in {"+", "-"}
        body   == IF signed THEN SubSeq(s, 2, Len(s)) ELSE s
        ok     == Len(body) > 0 /\ \A i \in 1..Len(body) : body[i] \in Digits
    IN  IF ~ok THEN 0
        ELSE IF signed /\ s[1] = "-" THEN -DigitsVal(body) ELSE DigitsVal(body)

\* fiber's c.Query(key, default): the default when the value is absent or empty
Query(value, default) == IF value = <<>> THEN default ELSE value
QueryStr(value, default) == IF value = "" THEN default ELSE value

validSortFields ==
    {"profession_id", "created_at", "profession_name", "meta_pixel", "meta_token"}

ResolveDirection(sortDirection) ==
    IF sortDirection # "asc" /\ sortDirection # "desc" THEN "desc" ELSE sortDirection

\* the ordering built without consulting the allow-list
OrderByUnchecked(sortBy, sortDirection) == sortBy \o " " \o sortDirection

\* lines 41-44
OrderBy(sortBy, sortDirection) ==
    IF sortBy \in validSortFields
    THEN sortBy \o " " \o sortDirection
    ELSE "created_at desc"

MetaSortBy(sortBy) == sortBy

NoArgs == [called |-> FALSE, page |-> 0, limit |-> 0, orderBy |-> ""]

NoResp == [status |-> 0, body |-> "none", error |-> FALSE,
           total |-> 0, page |-> 0, limit |-> 0, last_page |-> 0,
           sort_by |-> "", sort_direction |-> ""]

\* Raw values of the page and limit parameters (<<>> = parameter absent)
RawNumbers ==
    { <<>>, <<"a", "b", "c">>, <<"0">>, <<"-", "3">>, <<"1">>, <<"2">>,
      <<"1", "0">>, <<"2", "x">> }

RawSortBy ==
    validSortFields \cup {"", "invalid_field", "CREATED_AT", "created_at desc", "name"}

RawSortDirection == {"", "asc", "desc", "up", "ASC"}

\* No request has arrived
InitProfIdle ==
    /\ query = [page |-> <<>>, limit |-> <<>>, sortBy |-> "", sortDirection |-> ""]
    /\ ucArgs = NoArgs
    /\ resp = NoResp

\* A request with any query string has arrived and is not handled yet
InitProf ==
    /\ query \in [page : RawNumbers, limit : RawNumbers, sortBy : RawSortBy,
                  sortDirection : RawSortDirection]
    /\ ucArgs = NoArgs
    /\ resp = NoResp

\* One request handled from parsing to response.  The use case is an
\* external collaborator: it answers with any total, or with an error.
GetProfessions(total, err) ==
    LET p             == Atoi(Query(query.page, <<"1">>))
        limit         == Atoi(Query(query.limit, <<"1", "0">>))
        sortBy        == QueryStr(query.sortBy, "created_at")
        sortDirection == ResolveDirection(QueryStr(query.sortDirection, "desc"))
        orderBy       == OrderBy(sortBy, sortDirection)
    IN  /\ ucArgs' = [called |-> TRUE, page |-> p, limit |-> limit, orderBy |-> orderBy]
        /\ resp' =
             IF err
             THEN [NoResp EXCEPT !.status = 500, !.body = "error", !.error = TRUE]
             ELSE IF limit = 0
             THEN \* integer division by zero: the goroutine panics
                  [NoResp EXCEPT !.body = "panic"]
             ELSE [status |-> 200, body |-> "envelope", error |-> FALSE,
                   total |-> total, page |-> p, limit |-> limit,
                   last_page |-> GoDiv(total + limit - 1, limit),
                   sort_by |-> MetaSortBy(sortBy),
                   sort_direction |-> sortDirection]
        /\ UNCHANGED <<query, nonProfVars>>

UseCaseTotals == {0, 1, 9, 10, 11, MaxProfTotal}

HandleGetProfessions ==
    /\ ~ucArgs.called
    /\ \E total \in UseCaseTotals, err \in BOOLEAN : GetProfessions(total, err)

----------------------------------------------------------------------------
(* JavaScript values *)

\* A JavaScript number: NaN, or the integer v (frac: plus a fractional part)
Num(v) == [nan |-> FALSE, frac |-> FALSE, v |-> v]
NaN == [nan |-> TRUE, frac |-> FALSE, v |-> 0]

\* a || b on numbers: 0 and NaN are falsy
NumOr(a, b) == IF a.nan \/ (a.v = 0 /\ ~a.frac) THEN b ELSE a

Whitespace == {" "}

RECURSIVE TrimLeft(_)
TrimLeft(s) ==
    IF s # <<>> /\ Head(s) \in Whitespace THEN TrimLeft(Tail(s)) ELSE s

RECURSIVE TrimRight(_)
TrimRight(s) ==
    IF s # <<>> /\ s[Len(s)] \in Whitespace
    THEN TrimRight(SubSeq(s, 1, Len(s) - 1))
    ELSE s

\* String.prototype.trim
Trim(s) == TrimRight(TrimLeft(s))

\* Length of the longest prefix of s made of digits
RECURSIVE DigitPrefixLen(_)
DigitPrefixLen(s) ==
    IF s # <<>> /\ Head(s) \in Digits THEN 1 + DigitPrefixLen(Tail(s)) ELSE 0

\* parseInt(s, 10): leading whitespace, an optional sign, then the longest
\* run of digits; NaN when there is no digit
ParseInt(s) ==
    LET t      == TrimLeft(s)
        signed == t # <<>> /\ Head(t) \in {"+", "-"}
        body   == IF signed THEN Tail(t) ELSE t
        k      == DigitPrefixLen(body)
        v      == DigitsVal(SubSeq(body, 1, k))
    IN  IF k = 0 THEN NaN
        ELSE IF signed /\ Head(t) = "-" THEN Num(-v) ELSE Num(v)

\* Number(s) of a string: surrounding whitespace is dropped, the empty string
\* is 0, a decimal literal is its value, anything else is NaN
Number(s) ==
    LET t      == Trim(s)
        signed == t # <<>> /\ Head(t) \in {"+", "-"}
        body   == IF signed THEN Tail(t) ELSE t
        k      == DigitPrefixLen(body)
        rest   == SubSeq(body, k + 1, Len(body))
        dotted == rest # <<>> /\ Head(rest) = "."
        fracDigits == IF dotted THEN Tail(rest) ELSE <<>>
        wellFormed ==
            /\ k > 0 \/ fracDigits # <<>>
            /\ rest = <<>> \/ dotted
            /\ \A i \in 1..Len(fracDigits) : fracDigits[i] \in Digits
        v      == DigitsVal(SubSeq(body, 1, k))
    IN  IF t = <<>> THEN Num(0)
        ELSE IF ~wellFormed THEN NaN
        ELSE [nan  |-> FALSE,
              frac |-> \E i \in 1..Len(fracDigits) : fracDigits[i] # "0",
              v    |-> IF signed /\ Head(t) = "-" THEN -v ELSE v]

----------------------------------------------------------------------------
(* GET of /api/lead and of the anonymous route *)

Routes == {"lead", "anonymous"}

\* searchParams.get(key) || default: the default when absent or empty
GetOr(value, default) == IF value = <<>> THEN default ELSE value
GetOrStr(value, default) == IF value = "" THEN default ELSE value

NoUpstream == [outcome |-> "none"]

NoProxyResp == [status |-> 0, escaped |-> FALSE, body |-> [none |-> TRUE]]

\* Bodies the upstream lead API may answer with; 0 and "" stand for an
\* absent (or falsy) field, leadsIsArray = FALSE for a leads field that is
\* not an array
LeadData ==
    [leadsIsArray : BOOLEAN, leads : {0, 2}, total : {0, 5}, page : {0, 2},
     limit : {0, 20}, totalPages : {0, 3}, sortBy : {"", "email"},
     sortDirection : {"", "asc"}]

\* Bodies the upstream anonymous API may answer with
AnonymousData ==
    [data : {0, 2}, meta : [total : {0, 2}, page : {1}, limit : {10}, last_page : {1}]]

\* lines 30-38 of the lead route
TransformLead(data, pageParam, limitParam, sortBy, sortDirection) ==
    [users         |-> IF data.leadsIsArray THEN data.leads ELSE 0,
     total         |-> data.total,
     page          |-> NumOr(Num(data.page), ParseInt(pageParam)),
     limit         |-> NumOr(Num(data.limit), ParseInt(limitParam)),
     totalPages    |-> IF data.totalPages = 0 THEN 1 ELSE data.totalPages,
     sortBy        |-> GetOrStr(data.sortBy, sortBy),
     sortDirection |-> GetOrStr(data.sortDirection, sortDirection)]

\* the exception leaves the handler instead of being answered
CatchRethrows(route) == [status |-> 0, escaped |-> TRUE, body |-> [none |-> TRUE]]

\* the catch block: lines 42-53 (lead), 23-34 (anonymous)
Catch(route) ==
    IF route = "lead"
    THEN [status |-> 500, escaped |-> FALSE,
          body |-> [users |-> 0, total |-> 0, page |-> Num(1), limit |-> Num(10),
                    totalPages |-> 1, sortBy |-> "created_at",
                    sortDirection |-> "desc"]]
    ELSE [status |-> 500, escaped |-> FALSE,
          body |-> [data |-> 0,
                    meta |-> [total |-> 0, page |-> 1, limit |-> 10, last_page |-> 1]]]

InitProxyIdle ==
    /\ proxyReq = [route |-> "lead", page |-> <<>>, limit |-> <<>>,
                   sortBy |-> "", sortDirection |-> ""]
    /\ upstream = NoUpstream
    /\ proxyResp = NoProxyResp

\* A request with any query string has arrived at one of the routes
InitProxy ==
    /\ proxyReq \in [route : Routes, page : RawNumbers, limit : RawNumbers,
                     sortBy : {"", "name"}, sortDirection : {"", "asc"}]
    /\ upstream = NoUpstream
    /\ proxyResp = NoProxyResp

\* The whole handler for an upstream that throws, answers non-OK, answers
\* with a body that is not JSON, or answers with JSON data
ProxyGet(how, data) ==
    LET pageParam     == GetOr(proxyReq.page, <<"1">>)
        limitParam    == GetOr(proxyReq.limit, <<"1", "0">>)
        sortBy        == GetOrStr(proxyReq.sortBy, "created_at")
        sortDirection == GetOrStr(proxyReq.sortDirection, "desc")
    IN  /\ upstream' = [outcome |-> how]
        /\ proxyResp' =
             IF how # "ok"
             THEN Catch(proxyReq.route)
             ELSE [status |-> 200, escaped |-> FALSE,
                   body |-> IF proxyReq.route = "lead"
                            THEN TransformLead(data, pageParam, limitParam,
                                               sortBy, sortDirection)
                            ELSE data]
        /\ UNCHANGED <<proxyReq, nonProxyVars>>

UpstreamFailures == {"throws", "nonOK", "badJson"}

HandleProxyGet ==
    /\ upstream.outcome = "none"
    /\ \/ \E how \in UpstreamFailures : ProxyGet(how, [none |-> TRUE])
       \/ /\ proxyReq.route = "lead"
          /\ \E data \in LeadData : ProxyGet("ok", data)
       \/ /\ proxyReq.route = "anonymous"
          /\ \E data \in AnonymousData : ProxyGet("ok", data)

----------------------------------------------------------------------------
(* fetchEvents and parseSearchParams *)

\* Number.prototype.toString for an integer
RECURSIVE NatToStr(_)
NatToStr(n) ==
    LET d == <<"0", "1", "2", "3", "4", "5", "6", "7", "8", "9">>[(n % 10) + 1]
    IN  IF n < 10 THEN <<d>> ELSE Append(NatToStr(n \div 10), d)

IntToStr(n) == IF n < 0 THEN <<"-">> \o NatToStr(-n) ELSE NatToStr(n)

\* A value of a clause's value field: a string, a number, or undefined
StrVal(chars) == [t |-> "str", s |-> chars, n |-> 0]
NumVal(n) == [t |-> "num", s |-> <<>>, n |-> n]
UndefVal == [t |-> "undef", s |-> <<>>, n |-> 0]

Truthy(v) == (v.t = "str" /\ v.s # <<>>) \/ (v.t = "num" /\ v.n # 0)

Clause(v) == [value |-> v]

\* The text of a filter parameter: not JSON at all, the empty string, a JSON
\* object, or a JSON array of clauses; spaced = written with extra blanks
RawFilter(kind, clauses, spaced) == [kind |-> kind, clauses |-> clauses, spaced |-> spaced]
ArrayText(clauses) == RawFilter("array", clauses, FALSE)

Param(val) == [present |-> TRUE, val |-> val]
AbsentFilter == [present |-> FALSE, val |-> RawFilter("none", <<>>, FALSE)]
AbsentText == [present |-> FALSE, val |-> <<>>]

\* JSON.parse: throws on text that is not JSON
ParseThrows(raw) == raw.kind \in {"malformed", "emptyString"}

\* JSON.stringify(JSON.parse(text)): the same document without extra blanks
Stringify(raw) == [raw EXCEPT !.spaced = FALSE]

\* parsed.some(f => f.value && f.value.trim() !== ''), left to right:
\* "true", "false", or "throws" when a truthy value without trim() comes
\* before any non-blank string
RECURSIVE SomeNonBlank(_)
SomeNonBlank(clauses) ==
    IF clauses = <<>> THEN "false"
    ELSE LET v == Head(clauses).value
         IN  IF ~Truthy(v) THEN SomeNonBlank(Tail(clauses))
             ELSE IF v.t # "str" THEN "throws"
             ELSE IF Trim(v.s) # <<>> THEN "true"
             ELSE SomeNonBlank(Tail(clauses))

\* lines 121-142: the parameter is copied to the request
Forwards(raw) ==
    /\ ~ParseThrows(raw)
    /\ raw.kind = "array"
    /\ Len(raw.clauses) > 0
    /\ SomeNonBlank(raw.clauses) = "true"

\* line 145: value && value.trim() !== ''
NonBlankText(p) == p.present /\ p.val # <<>> /\ Trim(p.val) # <<>>

\* lines 74-82 (from, to, time_from, time_to and funnel_id are treated like
\* profession_id and left out)
HasFilters(url) ==
    \/ url.advanced_filters.present
    \/ url.filter_condition.present
    \/ url.profession_id.present
    \/ url.filters.present

\* lines 24-36: pagination and sorting from the query key
BaseParams(key) ==
    [page |-> IntToStr(key.page), limit |-> IntToStr(key.limit),
     sortBy |-> IF key.column # "" THEN Param(key.column) ELSE [present |-> FALSE, val |-> ""],
     sortDirection |-> IF key.column # "" /\ key.direction # ""
                       THEN Param(key.direction) ELSE [present |-> FALSE, val |-> ""],
     advanced_filters |-> AbsentFilter, filters |-> AbsentFilter,
     filter_condition |-> AbsentText, profession_id |-> AbsentText,
     other |-> AbsentText]

\* lines 38-157: the parameters of the request for a URL
BuildRequest(url, key, clearing) ==
    LET base == BaseParams(key)
    IN  IF clearing \/ ~HasFilters(url) THEN base
        ELSE [base EXCEPT
                !.advanced_filters =
                    IF url.advanced_filters.present /\ Forwards(url.advanced_filters.val)
                    THEN Param(Stringify(url.advanced_filters.val)) ELSE AbsentFilter,
                !.filters =
                    IF url.filters.present /\ Forwards(url.filters.val)
                    THEN Param(Stringify(url.filters.val)) ELSE AbsentFilter,
                !.filter_condition =
                    IF NonBlankText(url.filter_condition) THEN url.filter_condition
                    ELSE IF /\ url.advanced_filters.present
                            /\ Forwards(url.advanced_filters.val)
                            /\ url.filter_condition.present
                            /\ url.filter_condition.val # <<>>
                    THEN url.filter_condition
                    ELSE AbsentText,
                !.profession_id =
                    IF NonBlankText(url.profession_id) THEN url.profession_id
                    ELSE AbsentText,
                !.other = url.other]

\* params.get(name) is truthy
Given(p) == p.present /\ p.val.kind # "emptyString"

\* advanced_filters first, the legacy parameter only as a fallback
ParseSearchParamsAdvancedFirst(url) ==
    IF Given(url.advanced_filters) /\ ParseThrows(url.advanced_filters.val) THEN <<>>
    ELSE IF Given(url.advanced_filters) /\ url.advanced_filters.val.kind = "array"
            /\ url.advanced_filters.val.clauses # <<>>
    THEN url.advanced_filters.val.clauses
    ELSE IF Given(url.filters) /\ ~ParseThrows(url.filters.val)
            /\ url.filters.val.kind = "array"
    THEN url.filters.val.clauses
    ELSE <<>>

\* lines 177-212
ParseSearchParams(url) ==
    IF Given(url.filters) /\ ParseThrows(url.filters.val)
    THEN <<>>     \* the catch at line 207: advanced_filters is never read
    ELSE LET legacy == IF Given(url.filters) /\ url.filters.val.kind = "array"
                       THEN url.filters.val.clauses ELSE <<>>
         IN  IF Len(legacy) # 0 THEN legacy
             ELSE IF ~Given(url.advanced_filters) THEN legacy
             ELSE IF ParseThrows(url.advanced_filters.val) THEN legacy
             ELSE IF url.advanced_filters.val.kind = "array"
             THEN url.advanced_filters.val.clauses
             ELSE legacy

TextX == <<"x">>
TextY == <<"y">>

\* Values of the advanced_filters and filters parameters
FilterParams ==
    { AbsentFilter,
      Param(RawFilter("emptyString", <<>>, FALSE)),
      Param(RawFilter("malformed", <<>>, FALSE)),
      Param(RawFilter("object", <<>>, FALSE)),
      Param(ArrayText(<<>>)),
      Param(RawFilter("array", <<>>, TRUE)),
      Param(ArrayText(<<Clause(StrVal(<<>>))>>)),
      Param(ArrayText(<<Clause(StrVal(<<" ">>)), Clause(UndefVal)>>)),
      Param(ArrayText(<<Clause(StrVal(TextX))>>)),
      Param(ArrayText(<<Clause(StrVal(TextY))>>)),
      Param(RawFilter("array", <<Clause(StrVal(TextX)), Clause(StrVal(<<>>))>>, TRUE)),
      Param(ArrayText(<<Clause(NumVal(5)), Clause(StrVal(TextX))>>)) }

Urls ==
    [advanced_filters : FilterParams, filters : FilterParams,
     filter_condition : {AbsentText, Param(<<"o", "r">>)},
     profession_id : {AbsentText, Param(<<" ">>), Param(<<"7">>)},
     other : {AbsentText, Param(<<"x">>)},
     page : {AbsentText, Param(<<"3">>)}]

EmptyEventsUrl ==
    [advanced_filters |-> AbsentFilter, filters |-> AbsentFilter,
     filter_condition |-> AbsentText, profession_id |-> AbsentText,
     other |-> AbsentText, page |-> AbsentText]

QueryKeys ==
    [page : {1, 2}, limit : {10}, column : {"", "event_time"}, direction : {"desc"}]
        \cup [page : {1}, limit : {10}, column : {"event_time"}, direction : {""}]

NoRequest == [issued |-> FALSE, clearing |-> FALSE,
              params |-> BaseParams([page |-> 0, limit |-> 0, column |-> "", direction |-> ""])]

NoParsed == [done |-> FALSE, threw |-> FALSE, filters |-> <<>>]

\* URL parameters of an export request
UrlParams(url, pageText, limitText, export) ==
    [advanced_filters |-> url.advanced_filters, filters |-> url.filters,
     filter_condition |-> url.filter_condition,
     profession_id |-> url.profession_id, other |-> url.other,
     page |-> pageText, limit |-> limitText, export |-> export]

NotSent == [issued |-> FALSE,
            direct |-> UrlParams(EmptyEventsUrl, AbsentText, AbsentText, FALSE),
            pages |-> <<>>]

InitFetchIdle ==
    /\ evUrl = EmptyEventsUrl
    /\ queryKey = [page |-> 1, limit |-> 10, column |-> "", direction |-> "desc"]
    /\ clearingFlag = FALSE
    /\ apiRequest = NoRequest
    /\ fetchResult = "none"
    /\ parsed = NoParsed
    /\ exportSent = NotSent

\* The events page is at some URL; nothing has been fetched or parsed yet
InitFetch ==
    /\ evUrl \in Urls
    /\ queryKey \in QueryKeys
    /\ clearingFlag \in BOOLEAN
    /\ apiRequest = NoRequest
    /\ fetchResult = "none"
    /\ parsed = NoParsed
    /\ exportSent = NotSent

\* fetchEvents up to its fetch call
FetchEvents ==
    /\ ~apiRequest.issued
    /\ apiRequest' = [issued |-> TRUE, clearing |-> clearingFlag,
                      params |-> BuildRequest(evUrl, queryKey, clearingFlag)]
    /\ clearingFlag' = FALSE
    /\ fetchResult' = "pending"
    /\ UNCHANGED <<evUrl, queryKey, parsed, exportSent, nonFetchVars>>

\* The listing request is answered: data, or a non-OK status / network
\* error, which fetchEvents rethrows
FetchAnswered ==
    /\ fetchResult = "pending"
    /\ \E r \in {"data", "fetchError"} : fetchResult' = r
    /\ UNCHANGED <<evUrl, queryKey, clearingFlag, apiRequest, parsed, exportSent,
                   nonFetchVars>>

\* parseSearchParams(searchParams)
ParseUrl ==
    /\ ~parsed.done
    /\ parsed' = [done |-> TRUE, threw |-> FALSE, filters |-> ParseSearchParams(evUrl)]
    /\ UNCHANGED <<evUrl, queryKey, clearingFlag, apiRequest, fetchResult,
                   exportSent, nonFetchVars>>

----------------------------------------------------------------------------
(* handleExportAll *)

pageSize == 1000

\* JavaScript Math.round(a / b) for a >= 0, b >= 1: halves round up
Round(a, b) == (2 * a + b) \div (2 * b)

\* Number of rows held by a sequence of chunks
RECURSIVE RowCount(_)
RowCount(ev) == IF ev = <<>> THEN 0 ELSE Head(ev).n + RowCount(Tail(ev))

DirectChunk(n) == [src |-> "direct", page |-> 0, n |-> n]
PageChunk(p, n) == [src |-> "page", page |-> p, n |-> n]

DirectRequest == [kind |-> "direct", page |-> 0, limit |-> 0]
PageRequest(p) == [kind |-> "page", page |-> p, limit |-> pageSize]

TotalPages(total) == CeilDiv(total, pageSize)

\* line 798: the direct response holds fewer rows than expected
UnderReturnedLoose(n, total) == n <= total
UnderReturned(n, total) == n < total

\* line 891: the assembled set is shorter than expected
NeedsPartialConfirmNever(len, total) == FALSE
NeedsPartialConfirm(len, total) == len < total

\* lines 912-917
BatchSize(totalEvents) ==
    IF totalEvents > 50000 THEN 5000
    ELSE IF totalEvents > 10000 THEN 2000
    ELSE 1000

TotalBatches(totalEvents) == CeilDiv(totalEvents, BatchSize(totalEvents))

\* lines 928-930: the number of rows in batch i
BatchRows(i, totalEvents) ==
    LET start == i * BatchSize(totalEvents)
        end   == Min(start + BatchSize(totalEvents), totalEvents)
    IN  end - start

\* line 833 / 874
FetchProgress(p, totalPages) == Round(p * 50, totalPages)

\* lines 975-976 without the offset added to the written value
ProcessingProgressNoOffset(i, totalBatches, up) ==
    LET progressOffset == IF up THEN 50 ELSE 0
    IN  Round((i + 1) * (100 - progressOffset), totalBatches)

\* lines 925, 975-976
ProcessingProgress(i, totalBatches, up) ==
    LET progressOffset == IF up THEN 50 ELSE 0
    IN  progressOffset + Round((i + 1) * (100 - progressOffset), totalBatches)

\* lines 1010-1013: the finally block
FinallyKeepsProgress(loading, progress) == [loading |-> FALSE, progress |-> progress]
Finally(loading, progress) == [loading |-> FALSE, progress |-> 0]

Totals ==
    { t \in { k * pageSize + d : k \in 0..MaxPages, d \in {-1, 0, 1, 500} } :
        t >= 0 /\ t <= MaxPages * pageSize }

\* Row counts a direct response may carry
DirectCounts(total) == { n \in {0, total - 1, total, total + 1} : n >= 0 }

\* Row counts the response for page p may carry
PageCounts(p, total) ==
    LET full == Min(pageSize, total - (p - 1) * pageSize)
    IN  { n \in {0, full - 1, full} : n >= 0 }

NoDirect == [status |-> "none", n |-> 0]

InitExport ==
    /\ pc = "idle"
    /\ totalRegistros = 0
    /\ exportAllLoading = FALSE
    /\ exportProgress = 0
    /\ allEvents = <<>>
    /\ usedPagination = FALSE
    /\ branch = "try"
    /\ page = 0
    /\ requests = <<>>
    /\ inFlight = 0
    /\ batchIdx = 0
    /\ csvRows = 0
    /\ progressLog = <<>>
    /\ partialAsked = FALSE
    /\ partialConfirmed = FALSE
    /\ alerts = <<>>
    /\ outcome = "none"
    /\ outputRows = 0
    /\ direct = NoDirect
    /\ failedPages = <<>>
    /\ menuOpen = FALSE
    /\ runningJobs = 0

\* The job ends: the finally block runs.  early = TRUE for the two early
\* returns, which reset both indicators themselves before finally does.
Ended(out, ev, log, al) ==
    LET early == out \in {"noEvents", "partialDeclined"}
        f     == Finally(IF early THEN FALSE ELSE exportAllLoading,
                         IF early THEN 0 ELSE exportProgress)
    IN  /\ pc' = "idle"
        /\ exportAllLoading' = f.loading
        /\ exportProgress' = f.progress
        /\ progressLog' = log \o (IF early THEN <<0>> ELSE <<>>) \o <<f.progress>>
        /\ allEvents' = ev
        /\ alerts' = al
        /\ outcome' = out
        /\ outputRows' = IF out = "output" THEN csvRows ELSE 0
        /\ runningJobs' = runningJobs - 1
        /\ UNCHANGED <<batchIdx, csvRows>>

\* Lines 883-980 up to the first yield: empty check, partial-export dialog,
\* first batch.
Check(ev, up, log) ==
    /\ usedPagination' = up
    /\ IF RowCount(ev) = 0
       THEN /\ Ended("noEvents", ev, log, alerts \o <<"noEvents">>)
            /\ UNCHANGED <<partialAsked, partialConfirmed>>
       ELSE IF NeedsPartialConfirm(RowCount(ev), totalRegistros)
       THEN /\ partialAsked' = TRUE
            /\ \E answer \in BOOLEAN :
                 /\ partialConfirmed' = answer
                 /\ IF answer
                    THEN /\ pc' = "processing"
                         /\ batchIdx' = 1
                         /\ csvRows' = BatchRows(0, RowCount(ev))
                         /\ exportProgress' =
                              ProcessingProgress(0, TotalBatches(RowCount(ev)), up)
                         /\ progressLog' = log \o <<exportProgress'>>
                         /\ allEvents' = ev
                         /\ UNCHANGED <<exportAllLoading, alerts, outcome, outputRows,
                                        runningJobs>>
                    ELSE Ended("partialDeclined", ev, log, alerts)
       ELSE /\ pc' = "processing"
            /\ batchIdx' = 1
            /\ csvRows' = BatchRows(0, RowCount(ev))
            /\ exportProgress' = ProcessingProgress(0, TotalBatches(RowCount(ev)), up)
            /\ progressLog' = log \o <<exportProgress'>>
            /\ allEvents' = ev
            /\ UNCHANGED <<exportAllLoading, alerts, outcome, outputRows,
                           partialAsked, partialConfirmed, runningJobs>>

\* Head of the page loop (lines 814 / 855) with the loop variable at p and
\* fl requests still unanswered: issue the request for page p, or leave the
\* loop.
Loop(br, ev, log, p, fl) ==
    /\ branch' = br
    /\ page' = p
    /\ IF p <= TotalPages(totalRegistros)
       THEN /\ requests' = Append(requests, PageRequest(p))
            /\ inFlight' = fl + 1
            /\ pc' = "pageWait"
            /\ usedPagination' = TRUE
            /\ allEvents' = ev
            /\ progressLog' = log
            /\ exportProgress' = IF log = <<>> THEN exportProgress ELSE log[Len(log)]
            /\ UNCHANGED <<exportAllLoading, batchIdx, csvRows, partialAsked,
                           partialConfirmed, alerts, outcome, outputRows,
                           runningJobs>>
       ELSE /\ Check(ev, TRUE, log)
            /\ inFlight' = fl
            /\ UNCHANGED requests

\* Lines 1052-1054: the button that opens the export menu is disabled while
\* a bulk export runs
TriggerNeverDisabled == FALSE
TriggerDisabled == exportAllLoading

\* Lines 1050-1068: a click on the enabled trigger shows the menu items
OpenExportMenu ==
    /\ ~menuOpen
    /\ ~TriggerDisabled
    /\ menuOpen' = TRUE
    /\ UNCHANGED <<pc, totalRegistros, exportAllLoading, exportProgress,
                   allEvents, usedPagination, branch, page, requests, inFlight,
                   batchIdx, csvRows, progressLog, partialAsked,
                   partialConfirmed, alerts, outcome, outputRows, direct,
                   failedPages, runningJobs, nonExportVars>>

\* The menu is dismissed without a choice
DismissExportMenu ==
    /\ menuOpen
    /\ menuOpen' = FALSE
    /\ UNCHANGED <<pc, totalRegistros, exportAllLoading, exportProgress,
                   allEvents, usedPagination, branch, page, requests, inFlight,
                   batchIdx, csvRows, progressLog, partialAsked,
                   partialConfirmed, alerts, outcome, outputRows, direct,
                   failedPages, runningJobs, nonExportVars>>

\* Lines 749-788 and 1075: the menu item is clicked - the handler runs up to
\* its first await (confirmation dialog, then the direct request) and the
\* menu closes on the selection.  The handler has no guard of its own.
StartExport ==
    /\ menuOpen
    /\ menuOpen' = FALSE
    /\ \E total \in Totals, answer \in BOOLEAN :
         /\ totalRegistros' = total
         /\ allEvents' = <<>>
         /\ usedPagination' = FALSE
         /\ branch' = "try"
         /\ page' = 0
         /\ batchIdx' = 0
         /\ csvRows' = 0
         /\ partialAsked' = FALSE
         /\ partialConfirmed' = FALSE
         /\ alerts' = <<>>
         /\ outputRows' = 0
         /\ direct' = NoDirect
         /\ failedPages' = <<>>
         /\ IF answer
            THEN /\ pc' = "direct"
                 /\ exportAllLoading' = TRUE
                 /\ exportProgress' = 0
                 /\ progressLog' = <<0>>
                 /\ requests' = <<DirectRequest>>
                 /\ inFlight' = inFlight + 1
                 /\ outcome' = "running"
                 /\ runningJobs' = runningJobs + 1
            ELSE /\ outcome' = "declined"
                 /\ requests' = <<>>
                 /\ progressLog' = <<>>
                 /\ UNCHANGED <<pc, exportAllLoading, exportProgress, inFlight,
                                runningJobs>>
    /\ UNCHANGED nonExportVars

\* Lines 788-812 and 841-853: the direct request is answered
DirectResponse ==
    /\ pc = "direct"
    /\ \/ \* non-OK status, or fetch / json() throws: the inner catch
          /\ direct' = [status |-> "failed", n |-> 0]
          /\ Loop("catch", allEvents, Append(progressLog, 1), 1, inFlight - 1)
       \/ \E n \in DirectCounts(totalRegistros) :
            /\ direct' = [status |-> "ok", n |-> n]
            /\ IF UnderReturned(n, totalRegistros)
               THEN Loop("try", <<>>, Append(progressLog, 1), 1, inFlight - 1)
               ELSE /\ Check(<<DirectChunk(n)>>, FALSE, progressLog)
                    /\ inFlight' = inFlight - 1
                    /\ UNCHANGED <<branch, page, requests>>
    /\ UNCHANGED <<totalRegistros, failedPages, menuOpen, nonExportVars>>

\* Lines 820-834 / 861-875: the request for the current page is answered
PageResponse ==
    /\ pc = "pageWait"
    /\ \/ \* non-OK status or thrown error
          /\ failedPages' = Append(failedPages, page)
          /\ IF branch = "try"
             THEN \* the loop runs inside the inner try: its catch takes over
                  Loop("catch", allEvents, Append(progressLog, 1), 1, inFlight - 1)
             ELSE \* outer catch, then finally
                  /\ Ended("error", allEvents, progressLog, alerts \o <<"error">>)
                  /\ inFlight' = inFlight - 1
                  /\ UNCHANGED <<usedPagination, branch, page, requests,
                                 partialAsked, partialConfirmed>>
       \/ \E n \in PageCounts(page, totalRegistros) :
            /\ allEvents' = Append(allEvents, PageChunk(page, n))
            /\ exportProgress' = FetchProgress(page, TotalPages(totalRegistros))
            /\ progressLog' = Append(progressLog, exportProgress')
            /\ pc' = "pageDelay"
            /\ inFlight' = inFlight - 1
            /\ UNCHANGED <<failedPages, exportAllLoading, usedPagination, branch,
                           page, requests, batchIdx, csvRows, partialAsked,
                           partialConfirmed, alerts, outcome, outputRows,
                           runningJobs>>
    /\ UNCHANGED <<totalRegistros, direct, menuOpen, nonExportVars>>

\* Lines 837 / 878: the 100 ms pause is over, the loop goes on
PageDelay ==
    /\ pc = "pageDelay"
    /\ Loop(branch, allEvents, progressLog, page + 1, inFlight)
    /\ UNCHANGED <<totalRegistros, direct, failedPages, menuOpen, nonExportVars>>

\* Lines 927-1013: the yield after a batch is over; next batch, or the file
BatchStep ==
    /\ pc = "processing"
    /\ IF batchIdx < TotalBatches(RowCount(allEvents))
       THEN /\ batchIdx' = batchIdx + 1
            /\ csvRows' = csvRows + BatchRows(batchIdx, RowCount(allEvents))
            /\ exportProgress' =
                 ProcessingProgress(batchIdx, TotalBatches(RowCount(allEvents)),
                                    usedPagination)
            /\ progressLog' = Append(progressLog, exportProgress')
            /\ UNCHANGED <<pc, exportAllLoading, allEvents, alerts, outcome,
                           outputRows, runningJobs>>
       ELSE Ended("output", allEvents, progressLog, alerts)
    /\ UNCHANGED <<totalRegistros, usedPagination, branch, page, requests,
                   inFlight, partialAsked, partialConfirmed, direct,
                   failedPages, menuOpen, nonExportVars>>

\* Lines 772-775: the URL without page and limit
ExportBaseParams(url) == UrlParams(url, AbsentText, AbsentText, FALSE)

\* Lines 778-779: the direct request adds export=true
ExportParams(url) == [ExportBaseParams(url) EXCEPT !.export = TRUE]

\* Lines 815-817 / 856-858: the request for page p adds page and limit
PageParamsOf(url, p) ==
    [ExportBaseParams(url) EXCEPT !.page = Param(IntToStr(p)),
                                  !.limit = Param(IntToStr(pageSize))]

\* Lines 772-817: the parameters handleExportAll sends for the URL the
\* events page is at - the direct request, then one request per page
ExportRequestsForUrl ==
    /\ ~exportSent.issued
    /\ exportSent' = [issued |-> TRUE,
                      direct |-> ExportParams(evUrl),
                      pages |-> [p \in 1..MaxPages |-> PageParamsOf(evUrl, p)]]
    /\ UNCHANGED <<evUrl, queryKey, clearingFlag, apiRequest, fetchResult,
                   parsed, nonFetchVars>>

----------------------------------------------------------------------------
(* Dates *)

DayMs == 24 * 60 * 60 * 1000

\* A Date: the day of a year that is not a leap year (0 = 1 January) and the
\* milliseconds since local midnight
Date(day, tod) == [day |-> day, tod |-> tod]

\* undefined, where a Date is expected
NoDate == [day |-> -1, tod |-> -1]

NotAfter(a, b) == a.day < b.day \/ (a.day = b.day /\ a.tod <= b.tod)

\* Date.prototype.setHours(h, m, s, ms)
SetHours(d, h, m, s, ms) == Date(d.day, ((h * 60 + m) * 60 + s) * 1000 + ms)

startOfDay(d) == SetHours(d, 0, 0, 0, 0)
endOfDay(d) == SetHours(d, 23, 59, 59, 999)

\* First day of each month, and of the next year
MonthStart == <<0, 31, 59, 90, 120, 151, 181, 212, 243, 273, 304, 334, 365>>

\* Month of d, counted from 1
GetMonth(d) ==
    CHOOSE m \in 1..12 : MonthStart[m] <= d.day /\ d.day < MonthStart[m + 1]

GetDate(d) == d.day - MonthStart[GetMonth(d)] + 1

\* Date.prototype.setDate(n): n < 1 reaches into the previous month
SetDate(d, n) == Date(MonthStart[GetMonth(d)] + n - 1, d.tod)

\* Date.prototype.setMonth(m): a day the month does not have rolls over
SetMonth(d, m) == Date(MonthStart[m] + GetDate(d) - 1, d.tod)

startOfMonth(d) == Date(MonthStart[GetMonth(d)], 0)
endOfMonth(d) == Date(MonthStart[GetMonth(d) + 1] - 1, DayMs - 1)

AddMinutes(d, n) ==
    LET t == d.tod + n * 60 * 1000
    IN  Date(d.day + (t \div DayMs), t % DayMs)

\* Date.prototype.getTimezoneOffset of a browser in Brasília (UTC-03:00)
timezoneOffset == 180

\* A value of a URL parameter: absent, a date-time text (a clock reading
\* followed by a zone designator), or any other text
UrlAbsent == [present |-> FALSE, clock |-> NoDate, zone |-> "", chars |-> <<>>]
UrlDate(clock, zone) ==
    [present |-> TRUE, clock |-> clock, zone |-> zone, chars |-> <<>>]
UrlText(chars) ==
    [present |-> TRUE, clock |-> NoDate, zone |-> "", chars |-> chars]

\* searchParams.get(key) is a non-empty string
HasValue(v) == v.present /\ (v.clock # NoDate \/ v.chars # <<>>)

\* Date.prototype.toISOString: the UTC clock reading, designator Z
toISOString(d) == UrlDate(AddMinutes(d, timezoneOffset), "Z")

formatDateWithBrasiliaTimezone(d) ==
    [toISOString(d) EXCEPT !.zone = "-03:00"]

ZoneMinutes(zone) == IF zone = "Z" THEN 0 ELSE 180

\* new Date(text) of an ISO 8601 text with a zone designator
NewDate(v) == AddMinutes(v.clock, ZoneMinutes(v.zone) - timezoneOffset)

\* String.prototype.split(sep)
RECURSIVE Split(_, _)
Split(s, sep) ==
    IF \A i \in 1..Len(s) : s[i] # sep THEN <<s>>
    ELSE LET i == CHOOSE i \in 1..Len(s) :
                      s[i] = sep /\ \A j \in 1..(i - 1) : s[j] # sep
         IN  <<SubSeq(s, 1, i - 1)>> \o Split(SubSeq(s, i + 1, Len(s)), sep)

\* n.toString().padStart(2, '0')
PadStart2(n) == IF n < 10 THEN <<"0">> \o NatToStr(n) ELSE NatToStr(n)

\* `${hour}:${minute}`, both padded to two digits
TimeText(hour, minute) == PadStart2(hour) \o <<":">> \o PadStart2(minute)

\* time.split(":").map(Number)
TimeParts(time) ==
    LET parts == Split(time, ":")
    IN  [hours |-> Number(parts[1]).v, minutes |-> Number(parts[2]).v]

----------------------------------------------------------------------------
(* DateFilter, hosted by the date filter modal of the surveys table *)

FilterTypes == {"captacao", "pesquisa", "vendas"}

\* currentEditingFilter = null
NoFilter == "none"

\* undefined, where a time text is expected
NoTime == <<>>

\* A FilterDateRange; undefined and a range of undefined fields are read alike
Range(from, to, fTime, tTime) ==
    [from |-> from, to |-> to, fromTime |-> fTime, toTime |-> tTime]

UndefinedRange == Range(NoDate, NoDate, NoTime, NoTime)

\* A DateRange of react-day-picker
DateRange(from, to) == [from |-> from, to |-> to]

NoSelection == DateRange(NoDate, NoDate)

NotEmitted == [by |-> "none", range |-> UndefinedRange]

NotSet == [set |-> FALSE, range |-> UndefinedRange]

FilterSuffixes == {"_from", "_to", "_time_from", "_time_to"}

\* The parameters of filter category t
CategoryKeys(t) == { t \o x : x \in FilterSuffixes }

SortKeys == {"sortBy", "sortDirection"}

SurveyKeys == {"page"} \cup SortKeys \cup UNION { CategoryKeys(t) : t \in FilterTypes }

\* The options of the two time selects: every quarter of an hour
timeOptions ==
    { TimeText(i \div 4, (i % 4) * 15) : i \in 0..(24 * 4 - 1) }

\* The options the user picks among
PickedTimes ==
    { TimeText(i \div 4, (i % 4) * 15) :
        i \in { j \in 0..(24 * 4 - 1) : j % TimeStride = 0 } }

\* The days the calendar lets the user click: none after today
Days == (today - MaxBack)..today

\* What the calendar hands to onSelect: nothing, one day, or a range whose
\* first day is not after its last
CalendarSelections ==
    {NoSelection}
    \cup { DateRange(Date(d, 0), NoDate) : d \in Days }
    \cup { DateRange(Date(p[1], 0), Date(p[2], 0)) :
              p \in { q \in Days \X Days : q[1] <= q[2] } }

Periods == {"today", "yesterday", "last7", "last30", "thisMonth", "lastMonth"}

\* toBrazilianTime(new Date())
brToday == Date(today, 12 * 60 * 60 * 1000)

\* The effect that rebuilds activeFilters from the URL
FiltersFromUrl(url) ==
    [t \in FilterTypes |->
        LET from     == url[t \o "_from"]
            to       == url[t \o "_to"]
            timeFrom == url[t \o "_time_from"]
            timeTo   == url[t \o "_time_to"]
        IN  IF HasValue(from)
            THEN [set   |-> TRUE,
                  range |-> Range(NewDate(from),
                                  IF HasValue(to) THEN NewDate(to) ELSE NoDate,
                                  timeFrom.chars, timeTo.chars)]
            ELSE NotSet]

EmptyUrl == [k \in SurveyKeys |-> UrlAbsent]

\* A URL written before the time parameters were dropped
LegacyUrl ==
    [EmptyUrl EXCEPT
        !["page"] = UrlText(<<"2">>),
        !["sortBy"] = UrlText(<<"n", "o", "m", "e">>),
        !["sortDirection"] = UrlText(<<"a", "s", "c">>),
        !["vendas_from"] =
            formatDateWithBrasiliaTimezone(Date(MonthStart[3] + 9, 0)),
        !["vendas_to"] =
            formatDateWithBrasiliaTimezone(endOfDay(Date(MonthStart[3] + 9, 0))),
        !["vendas_time_from"] = UrlText(TimeText(7, 45)),
        !["vendas_time_to"] = UrlText(TimeText(15, 30))]

\* A URL that carries only the lower bound of one category
OpenEndedUrl ==
    [EmptyUrl EXCEPT
        !["pesquisa_from"] =
            formatDateWithBrasiliaTimezone(Date(MonthStart[3] + 9, 0))]

SurveyUrls == {EmptyUrl, LegacyUrl, OpenEndedUrl}

\* 17 March and 31 March
Todays == {MonthStart[3] + 16, MonthStart[3] + 30}

DateFilterUnmounted ==
    /\ selectedDates = NoSelection
    /\ fromTime = TimeText(0, 0)
    /\ toTime = TimeText(23, 59)
    /\ showCustomTime = FALSE
    /\ emitted = NotEmitted

InitDateIdle ==
    /\ today = MonthStart[3] + 16
    /\ surveyUrl = EmptyUrl
    /\ filtersStale = FALSE
    /\ activeFilters = FiltersFromUrl(EmptyUrl)
    /\ currentEditingFilter = NoFilter
    /\ tempDateRange = UndefinedRange
    /\ DateFilterUnmounted
    /\ opened = FALSE
    /\ applied = [type |-> NoFilter, range |-> UndefinedRange]

InitDate ==
    /\ today \in Todays
    /\ surveyUrl \in SurveyUrls
    /\ filtersStale = FALSE
    /\ activeFilters = FiltersFromUrl(surveyUrl)
    /\ currentEditingFilter = NoFilter
    /\ tempDateRange = UndefinedRange
    /\ DateFilterUnmounted
    /\ opened = FALSE
    /\ applied = [type |-> NoFilter, range |-> UndefinedRange]

\* The props the modal passes to DateFilter
preventAutoSelect == TRUE

\* onChange = handleDateChange: the range becomes tempDateRange while a
\* category is being edited
Emit(by, range) ==
    /\ emitted' = [by |-> by, range |-> range]
    /\ tempDateRange' =
           IF currentEditingFilter = NoFilter THEN tempDateRange ELSE range

\* The two ends with the times of day DateFilter puts on a complete range
WithTimes(from, to, custom) ==
    IF custom
    THEN DateRange(SetHours(from, TimeParts(fromTime).hours,
                            TimeParts(fromTime).minutes, 0, 0),
                   SetHours(to, TimeParts(toTime).hours,
                            TimeParts(toTime).minutes, 59, 999))
    ELSE DateRange(SetHours(from, 0, 0, 0, 0), SetHours(to, 23, 59, 59, 999))

\* Opening the modal of a category mounts DateFilter on tempDateRange; one
\* editing session is followed
OpenDateFilterForType ==
    /\ currentEditingFilter = NoFilter
    /\ ~opened
    /\ opened' = TRUE
    /\ \E type \in FilterTypes :
        LET initialDate == IF activeFilters[type].set
                           THEN activeFilters[type].range
                           ELSE UndefinedRange
            autoSelect == /\ ~preventAutoSelect
                          /\ initialDate.from = NoDate
        IN  /\ currentEditingFilter' = type
            /\ fromTime' = IF initialDate.fromTime = NoTime
                           THEN TimeText(0, 0) ELSE initialDate.fromTime
            /\ toTime' = IF initialDate.toTime = NoTime
                         THEN TimeText(23, 59) ELSE initialDate.toTime
            /\ showCustomTime' = (initialDate.fromTime # NoTime)
            /\ IF autoSelect
               THEN /\ selectedDates' =
                           DateRange(startOfDay(brToday), endOfDay(brToday))
                    /\ emitted' = [by    |-> "mount",
                                   range |-> Range(startOfDay(brToday),
                                                   endOfDay(brToday),
                                                   NoTime, NoTime)]
                    /\ tempDateRange' = emitted'.range
               ELSE /\ selectedDates' =
                           DateRange(initialDate.from, initialDate.to)
                    /\ emitted' = NotEmitted
                    /\ tempDateRange' = initialDate
    /\ UNCHANGED <<today, surveyUrl, filtersStale, activeFilters, applied,
                   nonDateVars>>

HandleDateSelect ==
    /\ currentEditingFilter # NoFilter
    /\ \E newDate \in CalendarSelections :
        IF newDate.from = NoDate
        THEN /\ selectedDates' = NoSelection
             /\ Emit("handleDateSelect", UndefinedRange)
        ELSE /\ selectedDates' = newDate
             /\ IF newDate.to # NoDate
                THEN LET r == WithTimes(newDate.from, newDate.to,
                                        showCustomTime)
                     IN  Emit("handleDateSelect",
                              Range(r.from, r.to,
                                    IF showCustomTime THEN fromTime ELSE NoTime,
                                    IF showCustomTime THEN toTime ELSE NoTime))
                ELSE Emit("handleDateSelect",
                          Range(SetHours(newDate.from, 0, 0, 0, 0), NoDate,
                                IF showCustomTime THEN fromTime ELSE NoTime,
                                NoTime))
    /\ UNCHANGED <<today, surveyUrl, filtersStale, activeFilters,
                   currentEditingFilter, fromTime, toTime, showCustomTime,
                   opened, applied, nonDateVars>>

\* The range of a quick selection
QuickRange(period) ==
    CASE period = "today" ->
            DateRange(startOfDay(brToday), endOfDay(brToday))
      [] period = "yesterday" ->
            LET yesterday == SetDate(brToday, GetDate(brToday) - 1)
            IN  DateRange(startOfDay(yesterday), endOfDay(yesterday))
      [] period = "last7" ->
            DateRange(startOfDay(SetDate(brToday, GetDate(brToday) - 6)),
                      endOfDay(brToday))
      [] period = "last30" ->
            DateRange(startOfDay(SetDate(brToday, GetDate(brToday) - 29)),
                      endOfDay(brToday))
      [] period = "thisMonth" ->
            DateRange(startOfMonth(brToday), endOfMonth(brToday))
      [] period = "lastMonth" ->
            LET lastMonth == SetMonth(brToday, GetMonth(brToday) - 1)
            IN  DateRange(startOfMonth(lastMonth), endOfMonth(lastMonth))

HandleQuickSelect ==
    /\ currentEditingFilter # NoFilter
    /\ \E period \in Periods :
        LET newDate == QuickRange(period)
        IN  /\ selectedDates' = newDate
            /\ Emit("handleQuickSelect",
                    Range(newDate.from, newDate.to, NoTime, NoTime))
    /\ showCustomTime' = FALSE
    /\ fromTime' = TimeText(0, 0)
    /\ toTime' = TimeText(23, 59)
    /\ UNCHANGED <<today, surveyUrl, filtersStale, activeFilters,
                   currentEditingFilter, opened, applied, nonDateVars>>

\* The two time selects are rendered while showCustomTime is set
HandleTimeChange ==
    /\ currentEditingFilter # NoFilter
    /\ showCustomTime
    /\ selectedDates.from # NoDate
    /\ \E isStart \in BOOLEAN, value \in PickedTimes :
        /\ fromTime' = IF isStart THEN value ELSE fromTime
        /\ toTime' = IF isStart THEN toTime ELSE value
        /\ IF selectedDates.to # NoDate
           THEN LET hours   == TimeParts(value).hours
                    minutes == TimeParts(value).minutes
                IN  IF isStart
                    THEN Emit("handleTimeChange",
                              Range(SetHours(selectedDates.from,
                                             hours, minutes, 0, 0),
                                    selectedDates.to,
                                    value,
                                    IF showCustomTime THEN toTime ELSE NoTime))
                    ELSE Emit("handleTimeChange",
                              Range(selectedDates.from,
                                    SetHours(selectedDates.to,
                                             hours, minutes, 59, 999),
                                    IF showCustomTime THEN fromTime ELSE NoTime,
                                    value))
           ELSE UNCHANGED <<emitted, tempDateRange>>
    /\ UNCHANGED <<today, surveyUrl, filtersStale, activeFilters,
                   currentEditingFilter, selectedDates, showCustomTime,
                   opened, applied, nonDateVars>>

HandleCustomTimeToggle ==
    /\ currentEditingFilter # NoFilter
    /\ selectedDates.from # NoDate
    /\ LET newShowCustomTime == ~showCustomTime
       IN  /\ showCustomTime' = newShowCustomTime
           /\ IF selectedDates.to # NoDate
              THEN LET r == WithTimes(selectedDates.from, selectedDates.to,
                                      newShowCustomTime)
                   IN  Emit("handleCustomTimeToggle",
                            Range(r.from, r.to,
                                  IF newShowCustomTime THEN fromTime ELSE NoTime,
                                  IF newShowCustomTime THEN toTime ELSE NoTime))
              ELSE UNCHANGED <<emitted, tempDateRange>>
    /\ UNCHANGED <<today, surveyUrl, filtersStale, activeFilters,
                   currentEditingFilter, selectedDates, fromTime, toTime,
                   opened, applied, nonDateVars>>

HandleClear ==
    /\ currentEditingFilter # NoFilter
    /\ selectedDates' = NoSelection
    /\ showCustomTime' = FALSE
    /\ fromTime' = TimeText(0, 0)
    /\ toTime' = TimeText(23, 59)
    /\ Emit("handleClear", UndefinedRange)
    /\ UNCHANGED <<today, surveyUrl, filtersStale, activeFilters,
                   currentEditingFilter, opened, applied, nonDateVars>>

\* Closing the modal unmounts DateFilter
UnmountDateFilter ==
    /\ selectedDates' = NoSelection
    /\ fromTime' = TimeText(0, 0)
    /\ toTime' = TimeText(23, 59)
    /\ showCustomTime' = FALSE
    /\ emitted' = NotEmitted

\* applyCurrentFilter that takes the time parameters of every category away
AppliedUrlDroppingAllTimes(url, type, range) ==
    [k \in SurveyKeys |->
        IF k = "page" THEN UrlText(<<"1">>)
        ELSE IF k = type \o "_from"
        THEN IF range.from # NoDate
             THEN formatDateWithBrasiliaTimezone(range.from)
             ELSE UrlAbsent
        ELSE IF k = type \o "_to"
        THEN IF range.to # NoDate
             THEN formatDateWithBrasiliaTimezone(
                      SetHours(range.to, 23, 59, 59, 999))
             ELSE UrlAbsent
        ELSE IF \E t \in FilterTypes : k \in {t \o "_time_from", t \o "_time_to"}
        THEN UrlAbsent
        ELSE url[k]]

\* The search parameters applyCurrentFilter pushes
AppliedUrl(url, type, range) ==
    [k \in SurveyKeys |->
        IF k = "page" THEN UrlText(<<"1">>)
        ELSE IF k = type \o "_from"
        THEN IF range.from # NoDate
             THEN formatDateWithBrasiliaTimezone(range.from)
             ELSE UrlAbsent
        ELSE IF k = type \o "_to"
        THEN IF range.to # NoDate
             THEN formatDateWithBrasiliaTimezone(
                      SetHours(range.to, 23, 59, 59, 999))
             ELSE UrlAbsent
        ELSE IF k \in {type \o "_time_from", type \o "_time_to"}
        THEN UrlAbsent
        ELSE url[k]]

ApplyCurrentFilter ==
    /\ currentEditingFilter # NoFilter
    /\ activeFilters' =
           [activeFilters EXCEPT
               ![currentEditingFilter] = [set |-> TRUE, range |-> tempDateRange]]
    /\ surveyUrl' = AppliedUrl(surveyUrl, currentEditingFilter, tempDateRange)
    /\ filtersStale' = (filtersStale \/ surveyUrl' # surveyUrl)
    /\ applied' = [type |-> currentEditingFilter, range |-> tempDateRange]
    /\ currentEditingFilter' = NoFilter
    /\ tempDateRange' = UndefinedRange
    /\ UnmountDateFilter
    /\ UNCHANGED <<today, opened, nonDateVars>>

\* The search parameters removeFilter pushes
RemovedUrl(url, type) ==
    [k \in SurveyKeys |->
        IF k \in CategoryKeys(type) THEN UrlAbsent
        ELSE IF k = "page" THEN UrlText(<<"1">>)
        ELSE url[k]]

\* removeFilter(type): the checkbox of an active filter is unticked, or the
\* X of its chip is clicked
RemoveFilter(type) ==
    /\ currentEditingFilter = NoFilter
    /\ activeFilters[type].set
    /\ activeFilters' = [activeFilters EXCEPT ![type] = NotSet]
    /\ surveyUrl' = RemovedUrl(surveyUrl, type)
    /\ filtersStale' = (filtersStale \/ surveyUrl' # surveyUrl)
    /\ UNCHANGED <<today, currentEditingFilter, tempDateRange, selectedDates,
                   fromTime, toTime, showCustomTime, emitted, opened, applied,
                   nonDateVars>>

RemoveActiveFilter == \E type \in FilterTypes : RemoveFilter(type)

\* The close button and Cancelar
CancelEditing ==
    /\ currentEditingFilter # NoFilter
    /\ currentEditingFilter' = NoFilter
    /\ UnmountDateFilter
    /\ UNCHANGED <<today, surveyUrl, filtersStale, activeFilters,
                   tempDateRange, opened, applied, nonDateVars>>

\* The effect on searchParamsObj
InitFiltersFromUrl ==
    /\ filtersStale
    /\ activeFilters' = FiltersFromUrl(surveyUrl)
    /\ filtersStale' = FALSE
    /\ UNCHANGED <<today, surveyUrl, currentEditingFilter, tempDateRange,
                   selectedDates, fromTime, toTime, showCustomTime, emitted,
                   opened, applied, nonDateVars>>

----------------------------------------------------------------------------
(* Pagination *)

\* a === k for a number a and an integer k
NumIs(a, k) == ~a.nan /\ ~a.frac /\ a.v = k

\* a === b; NaN is not equal to itself
StrictEq(a, b) == ~a.nan /\ ~b.nan /\ a = b

\* a + k for an integer k
NumPlus(a, k) == IF a.nan THEN NaN ELSE [a EXCEPT !.v = a.v + k]

\* k <= a for an integer k; never with NaN
IntLeqNum(k, a) == ~a.nan /\ k <= a.v

\* Number.prototype.toString; the fractions of the model are halves
NumToString(a) ==
    IF a.nan THEN <<"N", "a", "N">>
    ELSE IF a.frac THEN IntToStr(a.v) \o <<".", "5">>
    ELSE IntToStr(a.v)

\* Math.ceil(totalCount / perPage), for totalCount >= 0 and perPage >= 1
CeilOfQuotient(totalCount, perPage) == Num(CeilDiv(totalCount, perPage))

PagesWithoutFallback(totalCount, perPage) ==
    CeilOfQuotient(totalCount, perPage).v

\* const pages = Math.ceil(totalCount / perPage) || 1
Pages(totalCount, perPage) ==
    NumOr(CeilOfQuotient(totalCount, perPage), Num(1)).v

Buttons == {"first", "previous", "next", "last"}

\* The disabled attribute of each button
Disabled(button, pageIndex, pages) ==
    IF button \in {"first", "previous"}
    THEN NumIs(pageIndex, 1)
    ELSE IntLeqNum(pages, pageIndex)

\* The argument each button passes to onPageChange
Target(button, pageIndex, pages) ==
    CASE button = "first" -> Num(1)
      [] button = "previous" -> NumPlus(pageIndex, -1)
      [] button = "next" -> NumPlus(pageIndex, 1)
      [] button = "last" -> Num(pages)

NoView == [rendered |-> FALSE, pages |-> 0, disabled |-> {}]

NotAsked == [asked |-> FALSE, page |-> Num(0)]

InitPaginationIdle ==
    /\ pagProps = [pageIndex |-> Num(1), totalCount |-> 0, perPage |-> 10]
    /\ pagView = NoView
    /\ pageAsked = NotAsked

InitPagination ==
    /\ pagProps \in [pageIndex : {Num(i) : i \in 1..MaxPageIndex},
                     totalCount : 0..MaxCount,
                     perPage : 1..MaxPerPage]
    /\ pagView = NoView
    /\ pageAsked = NotAsked

RenderPagination ==
    /\ ~pagView.rendered
    /\ LET pages == Pages(pagProps.totalCount, pagProps.perPage)
       IN  pagView' = [rendered |-> TRUE,
                       pages    |-> pages,
                       disabled |-> { b \in Buttons :
                                        Disabled(b, pagProps.pageIndex, pages) }]
    /\ UNCHANGED <<pagProps, pageAsked, nonPaginationVars>>

ClickButton ==
    /\ pagView.rendered
    /\ ~pageAsked.asked
    /\ \E button \in Buttons \ pagView.disabled :
        pageAsked' = [asked |-> TRUE,
                      page  |-> Target(button, pagProps.pageIndex,
                                       pagView.pages)]
    /\ UNCHANGED <<pagProps, pagView, nonPaginationVars>>

----------------------------------------------------------------------------
(* The events page: currentPage, the page parameter, the listing query *)

\* searchParams.get(key) as a number: Number(null) is 0
NumberOfParam(v) == IF v.present THEN Number(v.chars) ELSE Num(0)

\* The values of the page parameter a visitor arrives with
PageParams ==
    {UrlAbsent} \cup
    { UrlText(t) : t \in { <<>>, <<"1">>, <<"2">>, <<"0">>, <<"-", "3">>,
                           <<"a", "b", "c">>, <<"2", ".", "5">> } }

LimitParams == {UrlAbsent, UrlText(<<"5">>)}

\* The totals the listing endpoint reports
ListingTotals == {0, MaxListingTotal}

\* The only option of the per-page control
PerPageOptions == {25}

NoNav == [pending |-> FALSE, page |-> UrlAbsent, limit |-> UrlAbsent,
          filtered |-> FALSE]

NoKey == [sent |-> FALSE, page |-> Num(0), limit |-> Num(0)]

NoData == [has |-> FALSE, total |-> 0, limit |-> Num(0)]

\* sessionStorage keys, as sequences of characters
AdvancedFiltersRemoved ==
    <<"a", "d", "v", "a", "n", "c", "e", "d", "_", "f", "i", "l", "t", "e",
      "r", "s", "_", "r", "e", "m", "o", "v", "e", "d">>

FilterClearingInProgress ==
    <<"f", "i", "l", "t", "e", "r", "_", "c", "l", "e", "a", "r", "i", "n",
      "g", "_", "i", "n", "_", "p", "r", "o", "g", "r", "e", "s", "s">>

EventsMarker == <<"e", "v", "e", "n", "t", "s", "_">>

EventsFromDate ==
    <<"e", "v", "e", "n", "t", "s", "_", "f", "r", "o", "m", "_", "d", "a",
      "t", "e">>

EventsToDate ==
    <<"e", "v", "e", "n", "t", "s", "_", "t", "o", "_", "d", "a", "t", "e">>

EventsDefaultFilterApplied ==
    <<"e", "v", "e", "n", "t", "s", "_", "d", "e", "f", "a", "u", "l", "t",
      "_", "f", "i", "l", "t", "e", "r", "_", "a", "p", "p", "l", "i", "e",
      "d">>

EventsTimeFrom ==
    <<"e", "v", "e", "n", "t", "s", "_", "t", "i", "m", "e", "_", "f", "r",
      "o", "m">>

StoredKeys ==
    {EventsFromDate, EventsToDate, EventsTimeFrom, EventsDefaultFilterApplied}

\* String.prototype.includes
Includes(s, sub) ==
    \E i \in 0..(Len(s) - Len(sub)) : SubSeq(s, i + 1, i + Len(sub)) = sub

\* sessionStorage.getItem(k) is not null; keys is the order of key(i)
HasItem(keys, k) == \E i \in 1..Len(keys) : keys[i] = k

\* sessionStorage.setItem: where key(i) lists a new key is up to the browser
SetItem(keys, k) ==
    IF HasItem(keys, k) THEN {keys}
    ELSE { SubSeq(keys, 1, i) \o <<k>> \o SubSeq(keys, i + 1, Len(keys)) :
             i \in 0..Len(keys) }

\* sessionStorage.removeItem: the keys behind the removed one move up
RemoveItem(keys, k) == SelectSeq(keys, LAMBDA x : x # k)

\* Lines 773-778: the loop over sessionStorage.key(i), i counted from 0,
\* which removes the keys that contain 'events_' as it goes
RECURSIVE CleanupFrom(_, _)
CleanupFrom(keys, i) ==
    IF i >= Len(keys) THEN keys
    ELSE IF Includes(keys[i + 1], EventsMarker)
    THEN CleanupFrom(RemoveItem(keys, keys[i + 1]), i + 1)
    ELSE CleanupFrom(keys, i + 1)

\* Sequences without repetition over a set of keys
KeyOrders(S) ==
    { s \in UNION { [1..n -> S] : n \in 0..MaxStoredKeys } :
        \A i, j \in 1..Len(s) : s[i] = s[j] => i = j }

NoRefetch == [safe |-> 0, cleared |-> 0]

\* loadingTimeoutRef.current: the kind of timer it names and whether that
\* timer is still pending
NullRef == [kind |-> "none", live |-> FALSE]
TimerRef(kind) == [kind |-> kind, live |-> TRUE]

NoOrphans == [stop |-> 0, safety |-> 0]

\* The component right after its first render on a URL
EventsContentWith(pageText, limitText, filtered, keys) ==
    /\ landingPage = pageText
    /\ urlPage = pageText
    /\ urlLimit = limitText
    /\ urlFiltered = filtered
    /\ pendingNav = NoNav
    /\ currentPage = NumOr(NumberOfParam(pageText), Num(1))
    /\ pageLimit = NumOr(NumberOfParam(limitText), Num(10))
    /\ isMounted = FALSE
    /\ isManualLoading = FALSE
    /\ loadingTimeoutRef = NullRef
    /\ orphanTimers = NoOrphans
    /\ cleanups = [first |-> TRUE, third |-> FALSE]
    /\ isRefetchingRef = FALSE
    /\ blockRefetchRef = FALSE
    /\ hasSearchParamsChanged = FALSE
    /\ refetchTimers = 0
    /\ restoreTimers = 0
    /\ safeTimers = 0
    /\ safeOrigin = "none"
    /\ refetching = NoRefetch
    /\ clearPc = "idle"
    /\ sessionKeys = keys
    /\ removalTimers = 0
    /\ userActions = 0
    /\ listingKey = NoKey
    /\ eventsData = NoData

EventsContent(pageText, limitText) ==
    EventsContentWith(pageText, limitText, FALSE, <<>>)

InitPageIdle == EventsContent(UrlAbsent, UrlAbsent)

InitPage == \E p \in PageParams, l \in LimitParams : EventsContent(p, l)

\* The events page on a URL with filters
InitReload == EventsContentWith(UrlText(<<"1">>), UrlAbsent, TRUE, <<>>)

\* The events page with something in sessionStorage
InitStored ==
    \E keys \in KeyOrders(StoredKeys) :
        EventsContentWith(UrlText(<<"1">>), UrlAbsent, TRUE, keys)

\* const pageNumber = urlPage ? parseInt(urlPage, 10) : 1
PageNumber == IF HasValue(urlPage) THEN ParseInt(urlPage.chars) ELSE Num(1)

\* The effect on [searchParams, currentPage] has a state change to make;
\* setting NaN over NaN is none
SyncDue == PageNumber # currentPage

SyncPageEffect ==
    /\ SyncDue
    /\ currentPage' = PageNumber
    /\ UNCHANGED <<urlVars, pageLimit, listingKey, eventsData, isMounted,
                   loadVars, cleanups, refetchVars, blockRefetchRef,
                   hasSearchParamsChanged, refetchTimers, restoreTimers,
                   clearPc, sessionKeys, removalTimers, userActions,
                   nonPageVars>>

\* queryKey: ["events", currentPage, limit, ...]
CurrentKey == [sent |-> TRUE, page |-> currentPage, limit |-> pageLimit]

\* Lines 40-53: fetchEvents takes the filter-clearing flag away
FetchEventsRuns ==
    sessionKeys' = RemoveItem(sessionKeys, FilterClearingInProgress)

\* useQuery runs fetchEvents for a key it has not fetched and gets an answer;
\* when the first answer is in, isLoading turns false and the effect of
\* lines 747-751 clears isManualLoading
ListingFetched ==
    /\ listingKey # CurrentKey
    /\ listingKey' = CurrentKey
    /\ \E total \in ListingTotals :
        eventsData' = [has |-> TRUE, total |-> total, limit |-> pageLimit]
    /\ isManualLoading' = IF eventsData.has THEN isManualLoading ELSE FALSE
    /\ FetchEventsRuns
    /\ UNCHANGED <<urlVars, currentPage, pageLimit, isMounted,
                   loadingTimeoutRef, orphanTimers, cleanups, refetchVars,
                   blockRefetchRef, hasSearchParamsChanged, refetchTimers,
                   restoreTimers, clearPc, removalTimers, userActions,
                   nonPageVars>>

\* meta={eventsData?.meta || {total: 0, page: currentPage, limit: limit, ...}}
Meta == IF eventsData.has THEN eventsData
        ELSE [has |-> FALSE, total |-> 0, limit |-> pageLimit]

\* The page count of the Pagination of the events table
TablePages == Pages(Meta.total, NumOr(Meta.limit, Num(10)).v)

\* router.push: the URL changes when the navigation commits
Push(pageText, limitText) ==
    pendingNav' = [pending |-> TRUE, page |-> pageText, limit |-> limitText,
                   filtered |-> urlFiltered]

\* One more click, event or navigation from outside is followed
UserActs ==
    /\ userActions < MaxUserActions
    /\ userActions' = userActions + 1

\* startLoading, blockRefetchRef.current = true, the 100 ms timer
StartBlockedReload ==
    /\ isManualLoading' = TRUE
    /\ loadingTimeoutRef' = NullRef
    /\ blockRefetchRef' = TRUE
    /\ refetchTimers' = refetchTimers + 1

\* A click on an enabled button of Pagination; effects are flushed before
HandlePageChange ==
    /\ ~SyncDue
    /\ UserActs
    /\ \E button \in Buttons :
        LET newPage == Target(button, currentPage, TablePages)
        IN  /\ ~Disabled(button, currentPage, TablePages)
            /\ ~(isManualLoading \/ isRefetchingRef
                   \/ StrictEq(newPage, currentPage))
            /\ Push(UrlText(NumToString(newPage)), urlLimit)
    /\ StartBlockedReload
    /\ UNCHANGED <<landingPage, urlPage, urlLimit, urlFiltered, currentPage,
                   pageLimit, listingKey, eventsData, isMounted, orphanTimers,
                   cleanups, refetchVars, hasSearchParamsChanged,
                   restoreTimers, clearPc, sessionKeys, removalTimers,
                   nonPageVars>>

HandlePerPageChange ==
    /\ ~SyncDue
    /\ UserActs
    /\ ~(isManualLoading \/ isRefetchingRef)
    /\ \E newLimit \in PerPageOptions :
        /\ pageLimit' = Num(newLimit)
        /\ Push(UrlText(<<"1">>), UrlText(NatToStr(newLimit)))
    /\ currentPage' = Num(1)
    /\ StartBlockedReload
    /\ UNCHANGED <<landingPage, urlPage, urlLimit, urlFiltered, listingKey,
                   eventsData, isMounted, orphanTimers, cleanups, refetchVars,
                   hasSearchParamsChanged, restoreTimers, clearPc,
                   sessionKeys, removalTimers, nonPageVars>>

\* clearTimeout(loadingTimeoutRef.current): the ref keeps naming the timer
ClearTimer(ref) == [ref EXCEPT !.live = FALSE]

\* The effects that depend on searchParams run.  first = TRUE for a new URL,
\* FALSE when only isMounted changed; blocked is blockRefetchRef.current by
\* the time the last of them runs.
\* Lines 337-409: the cleanup of the previous run clears the timer in
\* loadingTimeoutRef; while the filter-clearing flag is up the run only
\* notes the URL and leaves no cleanup behind, otherwise it sets
\* hasSearchParamsChanged.
\* Lines 849-895: the effect leaves at once while a block or the flag is
\* up; otherwise it finds paramsChanged true (a URLSearchParams object and a
\* string never have the same JSON text), sets isManualLoading and puts the
\* 15 s safety timer into loadingTimeoutRef over whatever timer was there.
ParamsEffects(first, blocked) ==
    LET isFilterClearing == HasItem(sessionKeys, FilterClearingInProgress)
        ref  == IF (first /\ cleanups.first) \/ cleanups.third
                THEN ClearTimer(loadingTimeoutRef) ELSE loadingTimeoutRef
        skip == blocked \/ isFilterClearing
    IN  /\ hasSearchParamsChanged' =
             IF first /\ ~isFilterClearing THEN TRUE ELSE hasSearchParamsChanged
        /\ cleanups' = [first |-> IF first THEN ~isFilterClearing ELSE cleanups.first,
                        third |-> ~skip]
        /\ isManualLoading' = IF skip THEN isManualLoading ELSE TRUE
        /\ orphanTimers' =
             IF ~skip /\ ref.live THEN [orphanTimers EXCEPT ![ref.kind] = @ + 1]
             ELSE orphanTimers
        /\ loadingTimeoutRef' = IF skip THEN ref ELSE TimerRef("safety")

\* Lines 253-256: isMounted turns true after the first pass of effects
Mounted ==
    /\ ~isMounted
    /\ isMounted' = TRUE
    /\ ParamsEffects(FALSE, blockRefetchRef)
    /\ UNCHANGED <<urlVars, queryVars, refetchVars, blockRefetchRef,
                   refetchTimers, restoreTimers, clearPc, sessionKeys,
                   removalTimers, userActions, nonPageVars>>

\* The URL of a navigation differs from the current one
Changes(nav) ==
    nav.page # urlPage \/ nav.limit # urlLimit \/ nav.filtered # urlFiltered

NavigationCommits ==
    /\ pendingNav.pending
    /\ urlPage' = pendingNav.page
    /\ urlLimit' = pendingNav.limit
    /\ urlFiltered' = pendingNav.filtered
    /\ pendingNav' = NoNav
    /\ IF Changes(pendingNav)
       THEN ParamsEffects(TRUE, blockRefetchRef)
       ELSE UNCHANGED <<loadVars, cleanups, hasSearchParamsChanged>>
    /\ UNCHANGED <<landingPage, queryVars, isMounted, refetchVars,
                   blockRefetchRef, refetchTimers, restoreTimers, clearPc,
                   sessionKeys, removalTimers, userActions, nonPageVars>>

\* The browser's back button, to the URL the visitor arrived with
NavigateBack ==
    /\ ~pendingNav.pending
    /\ urlPage # landingPage
    /\ UserActs
    /\ urlPage' = landingPage
    /\ ParamsEffects(TRUE, blockRefetchRef)
    /\ UNCHANGED <<landingPage, urlLimit, urlFiltered, pendingNav, queryVars,
                   isMounted, refetchVars, blockRefetchRef, refetchTimers,
                   restoreTimers, clearPc, sessionKeys, removalTimers,
                   nonPageVars>>

\* Lines 364-391: a navigation from outside took advanced_filters off a URL
\* that keeps other parameters, and no clearing flag is up: the effect puts
\* them back with router.replace behind a block with a 100 ms timer
FiltersDropped ==
    /\ UserActs
    /\ urlFiltered
    /\ ~HasItem(sessionKeys, FilterClearingInProgress)
    /\ ~HasItem(sessionKeys, AdvancedFiltersRemoved)
    /\ urlFiltered' = FALSE
    /\ blockRefetchRef' = TRUE
    /\ pendingNav' = [pending |-> TRUE, page |-> urlPage, limit |-> urlLimit,
                      filtered |-> TRUE]
    /\ restoreTimers' = restoreTimers + 1
    /\ ParamsEffects(TRUE, TRUE)
    /\ UNCHANGED <<landingPage, urlPage, urlLimit, queryVars, isMounted,
                   refetchVars, refetchTimers, clearPc, sessionKeys,
                   removalTimers, nonPageVars>>

\* Lines 387-389 / 726-728: the timer of a filter restore lifts the block
RestoreTimerFires ==
    /\ restoreTimers > 0
    /\ restoreTimers' = restoreTimers - 1
    /\ blockRefetchRef' = FALSE
    /\ UNCHANGED <<urlVars, queryVars, isMounted, loadVars, cleanups,
                   refetchVars, hasSearchParamsChanged, refetchTimers,
                   clearPc, sessionKeys, removalTimers, userActions,
                   nonPageVars>>

\* Lines 304-323: safeRefetch up to arming its 50 ms timer.  loading is the
\* value isManualLoading ends with when the call is skipped.
SafeRefetch(origin, loading) ==
    IF isRefetchingRef
    THEN /\ isManualLoading' = loading
         /\ UNCHANGED <<isRefetchingRef, loadingTimeoutRef, safeTimers,
                        safeOrigin>>
    ELSE /\ isRefetchingRef' = TRUE
         /\ isManualLoading' = TRUE
         /\ loadingTimeoutRef' = NullRef
         /\ safeTimers' = safeTimers + 1
         /\ safeOrigin' = origin

\* Lines 326-334 and 674-744: the two listeners of 'refetch-events', in the
\* order they were registered, with the block at blocked.  The first calls
\* safeRefetch; the second sets isManualLoading and then always leaves at
\* its isRefetchingRef check, the first having set the ref if it was not.
Listeners(blocked) ==
    IF blocked
    THEN UNCHANGED <<isManualLoading, isRefetchingRef, loadingTimeoutRef,
                     safeTimers, safeOrigin>>
    ELSE SafeRefetch("event", TRUE)

\* Lines 412-431: the effect that refetches after a URL change
RefetchOnParamsChange ==
    /\ hasSearchParamsChanged
    /\ isMounted
    /\ hasSearchParamsChanged' = FALSE
    /\ SafeRefetch("params", isManualLoading)
    /\ UNCHANGED <<urlVars, queryVars, isMounted, orphanTimers, cleanups,
                   refetching, blockRefetchRef, refetchTimers, restoreTimers,
                   clearPc, sessionKeys, removalTimers, userActions,
                   nonPageVars>>

\* Lines 629-633 / 657-660: the 100 ms timer of a page or per-page change
\* lifts the block and dispatches 'refetch-events'
PageTimerFires ==
    /\ refetchTimers > 0
    /\ refetchTimers' = refetchTimers - 1
    /\ blockRefetchRef' = FALSE
    /\ Listeners(FALSE)
    /\ UNCHANGED <<urlVars, queryVars, isMounted, orphanTimers, cleanups,
                   refetching, hasSearchParamsChanged, restoreTimers, clearPc,
                   sessionKeys, removalTimers, userActions, nonPageVars>>

\* events-table.tsx lines 1224-1230: the refresh control of the table
\* dispatches 'refetch-events'
RefreshClicked ==
    /\ UserActs
    /\ Listeners(blockRefetchRef)
    /\ UNCHANGED <<urlVars, queryVars, isMounted, orphanTimers, cleanups,
                   refetching, blockRefetchRef, hasSearchParamsChanged,
                   refetchTimers, restoreTimers, clearPc, sessionKeys,
                   removalTimers, nonPageVars>>

\* Lines 315-316: the 50 ms timer of safeRefetch calls refetch()
SafeTimerFires ==
    /\ safeTimers > 0
    /\ safeTimers' = safeTimers - 1
    /\ refetching' = [refetching EXCEPT !.safe = @ + 1]
    /\ FetchEventsRuns
    /\ UNCHANGED <<urlVars, queryVars, isMounted, loadVars, cleanups,
                   isRefetchingRef, safeOrigin, blockRefetchRef,
                   hasSearchParamsChanged, refetchTimers, restoreTimers,
                   clearPc, removalTimers, userActions, nonPageVars>>

\* stopLoading that arms nothing
StopLoadingWithoutTimer == NullRef

\* Lines 269-279: stopLoading leaves in loadingTimeoutRef the timer that
\* will set isManualLoading to false
StopLoading == TimerRef("stop")

\* Lines 317-321: the refetch of safeRefetch settles and stopLoading runs
SafeRefetchSettles ==
    /\ refetching.safe > 0
    /\ refetching' = [refetching EXCEPT !.safe = @ - 1]
    /\ loadingTimeoutRef' = StopLoading
    /\ isRefetchingRef' = FALSE
    /\ UNCHANGED <<urlVars, queryVars, isMounted, isManualLoading,
                   orphanTimers, cleanups, safeTimers, safeOrigin,
                   blockRefetchRef, hasSearchParamsChanged, refetchTimers,
                   restoreTimers, clearPc, sessionKeys, removalTimers,
                   userActions, nonPageVars>>

\* Lines 275-278 / 873-875: the timer loadingTimeoutRef names fires
LoadingTimerFires ==
    /\ loadingTimeoutRef.live
    /\ isManualLoading' = FALSE
    /\ loadingTimeoutRef' = IF loadingTimeoutRef.kind = "stop" THEN NullRef
                            ELSE ClearTimer(loadingTimeoutRef)
    /\ UNCHANGED <<urlVars, queryVars, isMounted, orphanTimers, cleanups,
                   refetchVars, blockRefetchRef, hasSearchParamsChanged,
                   refetchTimers, restoreTimers, clearPc, sessionKeys,
                   removalTimers, userActions, nonPageVars>>

\* A timer that line 873 wrote over fires.  A stopLoading timer also sets
\* the ref to null, which leaves the timer the ref named on its own.
OrphanTimerFires ==
    /\ \E kind \in {"stop", "safety"} :
         /\ orphanTimers[kind] > 0
         /\ IF kind = "stop"
            THEN /\ loadingTimeoutRef' = NullRef
                 /\ orphanTimers' =
                      IF loadingTimeoutRef.live /\ loadingTimeoutRef.kind # kind
                      THEN [orphanTimers EXCEPT ![kind] = @ - 1,
                                                ![loadingTimeoutRef.kind] = @ + 1]
                      ELSE IF loadingTimeoutRef.live THEN orphanTimers
                      ELSE [orphanTimers EXCEPT ![kind] = @ - 1]
            ELSE /\ loadingTimeoutRef' = loadingTimeoutRef
                 /\ orphanTimers' = [orphanTimers EXCEPT ![kind] = @ - 1]
    /\ isManualLoading' = FALSE
    /\ UNCHANGED <<urlVars, queryVars, isMounted, cleanups, refetchVars,
                   blockRefetchRef, hasSearchParamsChanged, refetchTimers,
                   restoreTimers, clearPc, sessionKeys, removalTimers,
                   userActions, nonPageVars>>

\* Lines 756-778: 'filters-cleared' arrives - the flags, startLoading, the
\* block and the storage loop, up to the first pause.  One run of the
\* handler is followed at a time.
HandleFilterCleared ==
    /\ clearPc = "idle"
    /\ UserActs
    /\ \E withRemoved \in SetItem(sessionKeys, AdvancedFiltersRemoved) :
         \E withClearing \in SetItem(withRemoved, FilterClearingInProgress) :
            sessionKeys' = CleanupFrom(withClearing, 0)
    /\ isManualLoading' = TRUE
    /\ loadingTimeoutRef' = NullRef
    /\ blockRefetchRef' = TRUE
    /\ clearPc' = "cleaned"
    /\ UNCHANGED <<urlVars, queryVars, isMounted, orphanTimers, cleanups,
                   refetchVars, hasSearchParamsChanged, refetchTimers,
                   restoreTimers, removalTimers, nonPageVars>>

\* Lines 781-804: the clean URL - page 1, limit and sorting kept - replaces
\* the current one
FilterClearedReplace ==
    /\ clearPc = "cleaned"
    /\ pendingNav' = [pending |-> TRUE, page |-> UrlText(<<"1">>),
                      limit |-> urlLimit, filtered |-> FALSE]
    /\ clearPc' = "replaced"
    /\ UNCHANGED <<landingPage, urlPage, urlLimit, urlFiltered, queryVars,
                   isMounted, loadVars, cleanups, refetchVars,
                   blockRefetchRef, hasSearchParamsChanged, refetchTimers,
                   restoreTimers, sessionKeys, removalTimers, userActions,
                   nonPageVars>>

\* Lines 810-813: after the second pause the handler calls refetch()
FilterClearedRefetch ==
    /\ clearPc = "replaced"
    /\ refetching' = [refetching EXCEPT !.cleared = @ + 1]
    /\ FetchEventsRuns
    /\ clearPc' = "refetching"
    /\ UNCHANGED <<urlVars, queryVars, isMounted, loadVars, cleanups,
                   isRefetchingRef, safeTimers, safeOrigin, blockRefetchRef,
                   hasSearchParamsChanged, refetchTimers, restoreTimers,
                   removalTimers, userActions, nonPageVars>>

\* Lines 813-836: the refetch of the handler settles - the block is lifted,
\* 'refetch-events' is dispatched, the finally block takes the clearing flag
\* away and arms the 5 s timer
FilterClearedDone ==
    /\ clearPc = "refetching"
    /\ refetching.cleared > 0
    /\ refetching' = [refetching EXCEPT !.cleared = @ - 1]
    /\ blockRefetchRef' = FALSE
    /\ Listeners(FALSE)
    /\ sessionKeys' = RemoveItem(sessionKeys, FilterClearingInProgress)
    /\ removalTimers' = removalTimers + 1
    /\ clearPc' = "idle"
    /\ UNCHANGED <<urlVars, queryVars, isMounted, orphanTimers, cleanups,
                   hasSearchParamsChanged, refetchTimers, restoreTimers,
                   userActions, nonPageVars>>

\* Lines 833-835: the 5 s timer takes advanced_filters_removed away
RemovalTimerFires ==
    /\ removalTimers > 0
    /\ removalTimers' = removalTimers - 1
    /\ sessionKeys' = RemoveItem(sessionKeys, AdvancedFiltersRemoved)
    /\ UNCHANGED <<urlVars, queryVars, isMounted, loadVars, cleanups,
                   refetchVars, blockRefetchRef, hasSearchParamsChanged,
                   refetchTimers, restoreTimers, clearPc, userActions,
                   nonPageVars>>

----------------------------------------------------------------------------
(* Specifications *)

Init == InitProfIdle /\ InitExport /\ InitProxyIdle /\ InitFetchIdle
           /\ InitDateIdle /\ InitPaginationIdle /\ InitPageIdle

NextProf == HandleGetProfessions

NextExport == OpenExportMenu \/ DismissExportMenu \/ StartExport \/ DirectResponse \/ PageResponse \/ PageDelay \/ BatchStep

NextProxy == HandleProxyGet

NextFetch == FetchEvents \/ FetchAnswered \/ ParseUrl \/ ExportRequestsForUrl

NextDate ==
    \/ OpenDateFilterForType
    \/ HandleDateSelect
    \/ HandleQuickSelect
    \/ HandleTimeChange
    \/ HandleCustomTimeToggle
    \/ HandleClear
    \/ ApplyCurrentFilter
    \/ RemoveActiveFilter
    \/ CancelEditing
    \/ InitFiltersFromUrl

NextPagination == RenderPagination \/ ClickButton

NextPage ==
    \/ SyncPageEffect
    \/ ListingFetched
    \/ HandlePageChange
    \/ HandlePerPageChange
    \/ NavigationCommits
    \/ NavigateBack

NextReload ==
    \/ Mounted
    \/ ListingFetched
    \/ SyncPageEffect
    \/ HandlePageChange
    \/ HandlePerPageChange
    \/ NavigationCommits
    \/ FiltersDropped
    \/ RestoreTimerFires
    \/ RefetchOnParamsChange
    \/ PageTimerFires
    \/ RefreshClicked
    \/ SafeTimerFires
    \/ SafeRefetchSettles
    \/ LoadingTimerFires
    \/ OrphanTimerFires
    \/ HandleFilterCleared
    \/ FilterClearedReplace
    \/ FilterClearedRefetch
    \/ FilterClearedDone
    \/ RemovalTimerFires

NextStorage == HandleFilterCleared

Next == NextProf \/ NextExport \/ NextProxy \/ NextFetch \/ NextDate
        \/ NextPagination \/ NextPage \/ NextReload \/ NextStorage

Spec == Init /\ [][Next]_vars

\* GetProfessions handling one pending request
InitRequest == InitProf /\ InitExport /\ InitProxyIdle /\ InitFetchIdle
           /\ InitDateIdle /\ InitPaginationIdle /\ InitPageIdle

SpecProf == InitRequest /\ [][NextProf]_vars

SpecExport == Init /\ [][NextExport]_vars

\* A proxy route handling one pending request
InitProxyRequest == InitProfIdle /\ InitExport /\ InitProxy /\ InitFetchIdle
                    /\ InitDateIdle /\ InitPaginationIdle /\ InitPageIdle

SpecProxy == InitProxyRequest /\ [][NextProxy]_vars

\* The events page at any URL
InitEventsUrl == InitProfIdle /\ InitExport /\ InitProxyIdle /\ InitFetch
                 /\ InitDateIdle /\ InitPaginationIdle /\ InitPageIdle

SpecFetch == InitEventsUrl /\ [][NextFetch]_vars

\* The surveys table at any of its URLs
InitSurveys == InitProfIdle /\ InitExport /\ InitProxyIdle /\ InitFetchIdle
               /\ InitDate /\ InitPaginationIdle /\ InitPageIdle

SpecDate == InitSurveys /\ [][NextDate]_vars

\* Pagination rendered on any props
InitProps == InitProfIdle /\ InitExport /\ InitProxyIdle /\ InitFetchIdle
             /\ InitDateIdle /\ InitPagination /\ InitPageIdle

SpecPagination == InitProps /\ [][NextPagination]_vars

\* The events page opened on any page parameter
InitEventsPage == InitProfIdle /\ InitExport /\ InitProxyIdle /\ InitFetchIdle
                  /\ InitDateIdle /\ InitPaginationIdle /\ InitPage

SpecPage == InitEventsPage /\ [][NextPage]_vars

\* The events page on a filtered URL: refetches, loading state and blocks
InitReloadPage == InitProfIdle /\ InitExport /\ InitProxyIdle /\ InitFetchIdle
                  /\ InitDateIdle /\ InitPaginationIdle /\ InitReload

SpecReload == InitReloadPage /\ [][NextReload]_vars

\* The filters-cleared handler over the sessionStorage it may find
InitStoredPage == InitProfIdle /\ InitExport /\ InitProxyIdle /\ InitFetchIdle
                  /\ InitDateIdle /\ InitPaginationIdle /\ InitStored

SpecStorage == InitStoredPage /\ [][NextStorage]_vars

\* Timers fire, navigations commit, effects run and requests are answered;
\* nothing obliges the visitor to click
FairSpecReload ==
    /\ SpecReload
    /\ WF_vars(Mounted)
    /\ WF_vars(ListingFetched)
    /\ WF_vars(SyncPageEffect)
    /\ WF_vars(NavigationCommits)
    /\ WF_vars(RestoreTimerFires)
    /\ WF_vars(RefetchOnParamsChange)
    /\ WF_vars(PageTimerFires)
    /\ WF_vars(SafeTimerFires)
    /\ WF_vars(SafeRefetchSettles)
    /\ WF_vars(LoadingTimerFires)
    /\ WF_vars(OrphanTimerFires)
    /\ WF_vars(FilterClearedReplace)
    /\ WF_vars(FilterClearedRefetch)
    /\ WF_vars(FilterClearedDone)
    /\ WF_vars(RemovalTimerFires)

\* Every request is eventually answered and every timer eventually fires
FairSpecExport ==
    /\ SpecExport
    /\ WF_vars(DirectResponse)
    /\ WF_vars(PageResponse)
    /\ WF_vars(PageDelay)
    /\ WF_vars(BatchStep)

----------------------------------------------------------------------------
(* Properties of GetProfessions (SpecProf) *)

Handled == ucArgs.called

Directions == {"asc", "desc"}

\* Values of page / limit that are not a number
NonNumeric == { <<"a", "b", "c">>, <<"2", "x">> }

\* C1: the ordering handed to the use case is '<field> <direction>' with an
\* allow-listed field and asc/desc; a sortBy outside the allow-list gives the
\* field created_at, a sortDirection other than asc/desc gives desc, and the
\* client's sortBy is the field only when it is allow-listed.
OrderingIsAllowListed ==
    Handled =>
        \E f \in validSortFields, d \in Directions :
            /\ ucArgs.orderBy = f \o " " \o d
            /\ (query.sortBy \notin validSortFields => f = "created_at")
            /\ (query.sortBy \in validSortFields => f = query.sortBy)
            /\ (query.sortDirection \notin Directions => d = "desc")
            /\ (query.sortBy \in validSortFields /\ query.sortDirection \in Directions
                    => d = query.sortDirection)

OrderingDefaultedWitness ==
    /\ Handled
    /\ query.sortBy = "invalid_field"
    /\ query.sortDirection = "up"
    /\ ucArgs.orderBy = "created_at desc"

\* C7: meta.sort_by and meta.sort_direction of the response are the field
\* and direction of the ordering handed to the use case; for a sortBy outside
\* the allow-list meta.sort_by is created_at.
MetaDescribesEffectiveSort ==
    resp.body = "envelope" =>
        /\ ucArgs.orderBy = resp.sort_by \o " " \o resp.sort_direction
        /\ (query.sortBy \notin validSortFields /\ query.sortBy # ""
                => resp.sort_by = "created_at")

\* C8: a page parameter that is missing, non-numeric, zero or negative gives
\* page 1 at the use case and in meta.page; a limit parameter that is missing
\* or non-numeric gives limit 10 at the use case and in meta.limit.
PaginationInputNormalized ==
    Handled =>
        /\ (query.page \in NonNumeric \cup { <<>>, <<"0">>, <<"-", "3">> }
                => /\ ucArgs.page = 1
                   /\ (resp.body = "envelope" => resp.page = 1))
        /\ (query.limit \in NonNumeric \cup { <<>> }
                => /\ ucArgs.limit = 10
                   /\ (resp.body = "envelope" => resp.limit = 10))

\* C9: whatever the limit parameter is, computing meta.last_page does not
\* divide by zero: once the use case has answered, the handler has returned
\* a response.
NeverDividesByZero ==
    Handled => resp.body \in {"envelope", "error"}

\* C10: for total >= 0 and limit >= 1, meta.last_page is
\* max(1, ceil(total / limit)).
LastPageIsCeilAtLeastOne ==
    (resp.body = "envelope" /\ resp.total >= 0 /\ resp.limit >= 1)
        => resp.last_page = Max(1, CeilDiv(resp.total, resp.limit))

----------------------------------------------------------------------------
(* Properties of handleExportAll (SpecExport, FairSpecExport) *)

IsPageRequest(r) == r.kind = "page"
PageRequests == SelectSeq(requests, IsPageRequest)

DirectAnswered == direct.status # "none"

\* The direct fetch failed, or succeeded with fewer rows than meta.total
DirectFellShort == direct.status = "failed" \/ direct.n < totalRegistros

Processed == pc = "processing" \/ outcome = "output"

DirectFetchDecides ==
    /\ (~DirectFellShort =>
            /\ PageRequests = <<>>
            /\ allEvents = <<DirectChunk(direct.n)>>
            /\ ~usedPagination
            /\ Processed)
    /\ (DirectFellShort =>
            /\ usedPagination
            /\ (outcome = "error" => failedPages # <<>>))
    /\ (PageRequests # <<>> <=> DirectFellShort)

\* C2 as stated: once the direct fetch is answered, a response with at least
\* meta.total rows goes to processing with exactly those rows and no page
\* request; a shorter or failed one switches to pagination instead of
\* failing; page requests are issued iff the direct fetch fell short.
DirectFetchDecidesStrategy ==
    DirectAnswered => DirectFetchDecides

\* C2 amended: the same for meta.total >= 1; for meta.total = 0 no page
\* request is issued at all.
DirectFetchDecidesStrategyNonEmpty ==
    DirectAnswered =>
        /\ (totalRegistros >= 1 => DirectFetchDecides)
        /\ (totalRegistros = 0 => PageRequests = <<>>)

DirectFetchSufficesWitness ==
    /\ pc = "processing"
    /\ direct.status = "ok"
    /\ direct.n = totalRegistros
    /\ totalRegistros = 2500
    /\ requests = <<DirectRequest>>

\* C3: a paginated export that reaches processing has issued exactly
\* N = ceil(meta.total / 1000) page requests, for pages 1..N in order with
\* limit 1000, never two requests in flight, and the accumulated sequence is
\* the page results in page order.
PaginatedFetchesEachPageOnce ==
    /\ inFlight <= 1
    /\ (usedPagination /\ Processed) =>
          LET N == CeilDiv(totalRegistros, 1000)
          IN  /\ PageRequests = [p \in 1..N |-> [kind |-> "page", page |-> p, limit |-> 1000]]
              /\ Len(allEvents) = N
              /\ \A p \in 1..N : allEvents[p].src = "page" /\ allEvents[p].page = p

JobEnded == pc = "idle" /\ ~exportAllLoading /\ exportProgress = 0

\* C4: every job that has set exportAllLoading eventually ends, and whenever
\* no job runs - after the file, the 'no events' alert, a declined partial
\* export or an error - exportAllLoading is false and exportProgress is 0.
ExportAlwaysCleansUp ==
    /\ [](pc = "idle" => JobEnded)
    /\ (exportAllLoading ~> JobEnded)

ExportFailedAndCleanedWitness ==
    /\ outcome = "error"
    /\ JobEnded
    /\ \E i \in 1..Len(progressLog) : progressLog[i] > 1

\* C5: a file with fewer records than meta.total is produced only after the
\* user confirmed the partial export; processing of a short set never starts
\* without the confirmation, and a declined dialog ends the job without a
\* file.
NoSilentTruncation ==
    /\ (outcome = "output" /\ outputRows < totalRegistros
            => partialAsked /\ partialConfirmed)
    /\ (pc = "processing" /\ RowCount(allEvents) < totalRegistros
            => partialAsked /\ partialConfirmed)
    /\ (partialAsked /\ ~partialConfirmed
            => pc = "idle" /\ outcome = "partialDeclined" /\ outputRows = 0)

PartialExportConfirmedWitness ==
    /\ outcome = "output"
    /\ outputRows > 0
    /\ outputRows < totalRegistros
    /\ partialConfirmed

\* C6: a failed page request makes the job fail: the error is reported, no
\* further page request is issued and no file is produced, whichever way
\* pagination was entered.
PageFailureFailsJob ==
    failedPages # <<>> =>
        /\ pc = "idle"
        /\ outcome = "error"
        /\ alerts = <<"error">>
        /\ outputRows = 0
        /\ Len(failedPages) = 1
        /\ PageRequests[Len(PageRequests)].page = failedPages[1]

\* The job is in its paginated fetching phase
PaginatedFetching == usedPagination /\ pc \in {"pageWait", "pageDelay"}

\* C21: whenever the export is in paginated fetching, the accumulated
\* sequence holds no rows of the direct response and never the rows of one
\* page twice, and during paginated fetching it only grows, by one page
\* appended at a time.
AccumulationStartsEmpty ==
    /\ [](PaginatedFetching =>
            /\ \A i \in 1..Len(allEvents) : allEvents[i].src = "page"
            /\ \A i, j \in 1..Len(allEvents) :
                  allEvents[i].page = allEvents[j].page => i = j)
    /\ [][PaginatedFetching /\ PaginatedFetching' =>
            \/ allEvents' = allEvents
            \/ \E n \in 0..pageSize : allEvents' = Append(allEvents, PageChunk(page, n))]_vars

\* The last batch of the processing phase has been written
LastBatchDone ==
    pc = "processing" /\ batchIdx = TotalBatches(RowCount(allEvents))

\* C22: exportProgress is always within 0..100; under the paginated strategy
\* every value written while fetching is within 0..50 and every value written
\* while processing within 50..100; under the direct strategy the processing
\* values lie within 0..100; in both cases the value written after the last
\* processing batch is exactly 100.
ProgressWithinPhaseRange ==
    /\ exportProgress \in 0..100
    /\ PaginatedFetching => exportProgress \in 0..50
    /\ (pc = "processing" /\ usedPagination) => exportProgress \in 50..100
    /\ (pc = "processing" /\ ~usedPagination) => exportProgress \in 0..100
    /\ LastBatchDone => exportProgress = 100

PaginatedProgressReachedHundred ==
    /\ LastBatchDone
    /\ usedPagination
    /\ exportProgress = 100
    /\ \E i \in 1..Len(progressLog) : progressLog[i] > 1 /\ progressLog[i] < 50
    /\ \E i \in 1..Len(progressLog) : progressLog[i] > 50 /\ progressLog[i] < 100

\* C29: within one export job the values written to exportProgress, from the
\* first write until the final reset to 0, never decrease.
ProgressNeverDecreases ==
    pc # "idle" =>
        \A i, j \in 1..Len(progressLog) : i < j => progressLog[i] <= progressLog[j]

\* C24: at most one bulk export job runs at any time: while exportAllLoading
\* is true the menu item that starts handleExportAll cannot be reached, and
\* every running job keeps exportAllLoading true.
AtMostOneExportJob ==
    /\ runningJobs <= 1
    /\ (runningJobs = 1) = (pc # "idle")
    /\ pc # "idle" => exportAllLoading
    /\ exportAllLoading => ~menuOpen

ExportRunsBehindDisabledTrigger ==
    /\ runningJobs = 1
    /\ pc = "pageDelay"
    /\ TriggerDisabled
    /\ ~menuOpen

----------------------------------------------------------------------------
(* Properties of the proxy routes (SpecProxy) *)

----------------------------------------------------------------------------
(* Further properties of GetProfessions (SpecProf) *)

\* C12: when the use case returns an error, GetProfessions answers with an
\* error status and the empty-result envelope (no data, total 0, last_page
\* 1), and the backend's error text is not part of the response.
UseCaseErrorGivesEmptyEnvelope ==
    (Handled /\ resp.status >= 400) =>
        /\ resp.body = "envelope"
        /\ ~resp.error
        /\ resp.total = 0
        /\ resp.last_page = 1

----------------------------------------------------------------------------
(* Properties of fetchEvents and parseSearchParams (SpecFetch) *)

FilterKeys == {"advanced_filters", "filters"}

OtherKey(k) == IF k = "advanced_filters" THEN "filters" ELSE "advanced_filters"

\* The parameter is present and is a JSON array with at least one clause
ValidNonEmpty(p) == p.present /\ p.val.kind = "array" /\ Len(p.val.clauses) > 0

Malformed(p) == p.present /\ p.val.kind = "malformed"

BlankValue(v) == v.t = "undef" \/ (v.t = "str" /\ Trim(v.s) = <<>>)

\* The parameter is a JSON array that is empty or has only blank values
BlankArray(p) ==
    /\ p.present
    /\ p.val.kind = "array"
    /\ \A i \in 1..Len(p.val.clauses) : BlankValue(p.val.clauses[i].value)

\* C13 as stated: when advanced_filters and filters are both valid non-empty
\* JSON arrays, parseSearchParams returns the clauses of advanced_filters.
AdvancedFiltersTakePrecedence ==
    (parsed.done /\ ValidNonEmpty(evUrl.advanced_filters) /\ ValidNonEmpty(evUrl.filters))
        => parsed.filters = evUrl.advanced_filters.val.clauses

\* C13 amended: when both are valid non-empty JSON arrays, parseSearchParams
\* returns the clauses of the legacy filters parameter; advanced_filters is
\* returned when the legacy parameter is absent, empty, not an array or an
\* empty array.
LegacyFiltersTakePrecedence ==
    parsed.done =>
        /\ (ValidNonEmpty(evUrl.advanced_filters) /\ ValidNonEmpty(evUrl.filters)
                => parsed.filters = evUrl.filters.val.clauses)
        /\ ((ValidNonEmpty(evUrl.advanced_filters)
              /\ ~ValidNonEmpty(evUrl.filters)
              /\ ~Malformed(evUrl.filters))
                => parsed.filters = evUrl.advanced_filters.val.clauses)

LegacyFiltersWinWitness ==
    /\ parsed.done
    /\ evUrl.advanced_filters = Param(ArrayText(<<Clause(StrVal(TextX))>>))
    /\ evUrl.filters = Param(ArrayText(<<Clause(StrVal(TextY))>>))
    /\ parsed.filters = <<Clause(StrVal(TextY))>>

\* C14: malformed JSON in advanced_filters or filters never leaves
\* fetchEvents or parseSearchParams as an error; the malformed parameter
\* counts as absent, the listing request is still issued, and a valid value
\* of the other parameter is still used.
MalformedFilterTreatedAsAbsent ==
    \A k \in FilterKeys :
        Malformed(evUrl[k]) =>
            /\ (parsed.done =>
                   /\ ~parsed.threw
                   /\ (ValidNonEmpty(evUrl[OtherKey(k)])
                          => parsed.filters = evUrl[OtherKey(k)].val.clauses))
            /\ (fetchResult # "none" =>
                   /\ apiRequest.issued
                   /\ ~apiRequest.params[k].present
                   /\ (Forwards(evUrl[OtherKey(k)].val) /\ ~apiRequest.clearing
                          => apiRequest.params[OtherKey(k)].present))

\* C15: when advanced_filters (or filters) is an empty array or an array of
\* blank values, the request fetchEvents builds is the request it builds for
\* the URL without that parameter.
BlankFilterEqualsAbsent ==
    apiRequest.issued =>
        \A k \in FilterKeys :
            BlankArray(evUrl[k]) =>
                apiRequest.params =
                    BuildRequest([evUrl EXCEPT ![k] = AbsentFilter], queryKey,
                                 apiRequest.clearing)

\* C16: the advanced_filters array in the request has no clause with an
\* empty or whitespace-only value.
ForwardedClausesNonBlank ==
    (apiRequest.issued /\ apiRequest.params.advanced_filters.present) =>
        \A i \in 1..Len(apiRequest.params.advanced_filters.val.clauses) :
            ~BlankValue(apiRequest.params.advanced_filters.val.clauses[i].value)

\* The document of a JSON filter parameter, written without extra blanks;
\* text that is not JSON stays as it is
JsonNorm(p) ==
    IF p.present /\ ~ParseThrows(p.val) THEN Param(Stringify(p.val)) ELSE p

\* The request carries the filter parameters of the listing request
SameFiltersAsListing(r) ==
    /\ \A k \in FilterKeys : JsonNorm(r[k]) = apiRequest.params[k]
    /\ r.filter_condition = apiRequest.params.filter_condition
    /\ r.profession_id = apiRequest.params.profession_id

\* C30: for the same URL the filter parameters of the export requests - the
\* direct request and every page request - are exactly those fetchEvents
\* sends for the listing: the export applies no filter the listing dropped
\* and omits none the listing applied.
ExportFiltersEqualListingFilters ==
    (apiRequest.issued /\ exportSent.issued) =>
        /\ SameFiltersAsListing(exportSent.direct)
        /\ \A i \in 1..Len(exportSent.pages) :
              SameFiltersAsListing(exportSent.pages[i])

----------------------------------------------------------------------------
(* Properties of DateFilter and applyCurrentFilter (SpecDate) *)

\* Only a start date is given
StartOnly(range) == range.from # NoDate /\ range.to = NoDate

\* C17: every complete range (from and to both present) that DateFilter
\* emits through onChange has from <= to, after any sequence of calendar
\* selections, quick selections, custom-time toggles and time changes.
EmittedRangeOrdered ==
    (emitted.range.from # NoDate /\ emitted.range.to # NoDate)
        => NotAfter(emitted.range.from, emitted.range.to)

\* C18: when only a start date is given, the upper bound defaults to the end
\* of the start day: the range DateFilter emits for a selection of one day,
\* and the <category>_to parameter applyCurrentFilter writes for a range
\* without upper bound, carry 23:59:59.999 of the from day.
StartOnlyDefaultsToEndOfDay ==
    /\ (emitted.by = "handleDateSelect" /\ StartOnly(selectedDates))
          => emitted.range.to = endOfDay(emitted.range.from)
    /\ (applied.type # NoFilter /\ StartOnly(applied.range))
          => surveyUrl[applied.type \o "_to"] =
                 formatDateWithBrasiliaTimezone(endOfDay(applied.range.from))

----------------------------------------------------------------------------
(* Properties of the events page (SpecPage) *)

PositiveInteger(n) == ~n.nan /\ ~n.frac /\ n.v >= 1

\* C19: in the events view currentPage, the page of every listing request
\* and of the pagination control, is always an integer >= 1, whatever the
\* page parameter of the URL is (missing, not a number, zero, negative), at
\* mount and after every URL change.
CurrentPageIsPositiveInteger ==
    /\ PositiveInteger(currentPage)
    /\ listingKey.sent => PositiveInteger(listingKey.page)

\* What a change of category t may do to the search parameters
TouchesOnly(t) ==
    /\ surveyUrl'["page"] = UrlText(<<"1">>)
    /\ \A k \in SurveyKeys \ ({"page"} \cup CategoryKeys(t)) :
          surveyUrl'[k] = surveyUrl[k]

\* C26: applying or removing the date range of one filter category changes
\* only the four URL parameters of that category and sets page to 1; the
\* parameters of the other two categories and the sort parameters stay.
OnlyOwnCategoryChanges ==
    [][\A t \in FilterTypes :
          (ApplyCurrentFilter /\ currentEditingFilter = t) \/ RemoveFilter(t)
              => TouchesOnly(t)]_vars

\* The vendas filter of a sorted URL was removed and a captacao filter
\* applied: the sort parameters are still there
OtherCategoryAndSortKept ==
    /\ applied.type = "captacao"
    /\ HasValue(surveyUrl["captacao_from"])
    /\ ~HasValue(surveyUrl["vendas_from"])
    /\ \A k \in SortKeys : HasValue(surveyUrl[k])

----------------------------------------------------------------------------
(* Properties of the refetches of the events page (SpecReload,
   FairSpecReload, SpecStorage) *)

\* refetch() calls that have not settled
RefetchesInFlight == refetching.safe + refetching.cleared

\* C23: at most one listing refetch is in flight at a time - a refetch asked
\* for by safeRefetch, by a 'refetch-events' event or by the filters-cleared
\* handler while another is pending is ignored.
AtMostOneRefetchInFlight ==
    /\ [](RefetchesInFlight <= 1)
    /\ [][RefetchesInFlight' > RefetchesInFlight => RefetchesInFlight = 0]_vars

NoEventsKeyLeft ==
    clearPc = "cleaned" =>
        \A i \in 1..Len(sessionKeys) : ~Includes(sessionKeys[i], EventsMarker)

\* The filters-cleared handler has set the block and not yet lifted it
HandlerHoldsBlock == clearPc \in {"cleaned", "replaced", "refetching"}

\* C28: from the moment the filters-cleared handler sets blockRefetchRef
\* until it lifts it itself the block stays up - a pending 100 ms timer of an
\* earlier page change, per-page change or filter restore does not lift it -
\* and no refetch is started by a 'refetch-events' event.
BlockHeldWhileClearing ==
    /\ [](HandlerHoldsBlock => blockRefetchRef)
    /\ [][HandlerHoldsBlock /\ HandlerHoldsBlock' =>
            ~(safeTimers' = safeTimers + 1 /\ safeOrigin' = "event")]_vars

----------------------------------------------------------------------------
(* Properties of Pagination (SpecPagination) *)

\* C20: the page count Pagination computes is max(1, ceil(totalCount /
\* perPage)) for totalCount >= 0 and perPage >= 1: it is at least 1, it is
\* enough pages for totalCount items, and above 1 it has no page to spare.
PageCountIsCeilAtLeastOne ==
    pagView.rendered =>
        /\ pagView.pages >= 1
        /\ pagView.pages * pagProps.perPage >= pagProps.totalCount
        /\ pagView.pages > 1 =>
               (pagView.pages - 1) * pagProps.perPage < pagProps.totalCount

\* No item at all is shown as one page
EmptyListingShownAsOnePage ==
    /\ pagView.rendered
    /\ pagProps.totalCount = 0
    /\ pagView.pages = 1

=============================================================================
